---- MODULE Spec2Model ----
(***************************************************************************)
(* Verification model of the security subsystem of cardigantime:           *)
(* NumericGuard, StringGuard, PathGuard, SecurityValidator and             *)
(* ProfileManager.                                                          *)
(*                                                                         *)
(* JavaScript values are modelled as records [type, num, str]; numbers are *)
(* records [k, v] with k in {"fin", "nan", "inf"}; a finite number is the  *)
(* exact decimal v / Scale.  Strings are sequences of one-character        *)
(* strings.                                                                 *)
(***************************************************************************)
EXTENDS Integers, Sequences, FiniteSets, TLC

VARIABLES
    numOptions,      \* NumericGuard.options
    logged,          \* the Logger handed to the SecurityValidator and the lines written to it
    heap,            \* the configuration and policy objects, each at its reference
    builder,         \* SecurityProfileBuilder.config, a reference into heap
    held,            \* the configuration object last returned to the caller, and by which function
    audit,           \* the SecurityAuditLogger object
    sink,            \* the messages the Logger received during the last call
    now,             \* the clock read by new Date()
    emitted,         \* SecurityAuditLogger: the events accepted since the buffer was last cleared
    dispatch,        \* ProfileManager: the notifyListeners loops in progress, innermost last
    strOptions,      \* StringGuard.options
    pathOptions,     \* PathGuard options
    config,          \* SecurityValidator.config
    fields,          \* field metadata registered in the CLI / config validators
    currentProfile,  \* ProfileManager.currentProfile
    currentConfig,   \* ProfileManager.currentConfig
    listeners,       \* ProfileManager.listeners
    unsubscribes,    \* the functions onProfileChange returned, and whether each was called
    calls,           \* listener invocations made by the last profile change
    op,              \* the last operation called and its arguments
    result           \* what the last operation returned or threw

vars == <<numOptions, logged, heap, builder, held, audit, sink, now, emitted, dispatch, strOptions, pathOptions, config, fields,
          currentProfile, currentConfig, listeners, unsubscribes, calls, op, result>>

-----------------------------------------------------------------------------
(* Bounds of the model *)

\* longest free-form string given to a guard
MaxStrLen == 3

\* finite number inputs are the multiples of 0.5 in [-MaxHalf/2, MaxHalf/2]
MaxHalf == 5

\* longest string given to StringGuard
MaxTextLen == 2

\* a path given to PathGuard is made of at most MaxPathTokens tokens
MaxPathTokens == 3
MaxSubscriptions == 3
MaxFreeCalls == 1
MaxAuditCalls == 103
MaxAllocations == 2

-----------------------------------------------------------------------------
(* JavaScript numbers *)

\* number of decimal fraction digits a finite number carries
FracDigits == MaxStrLen + 1

RECURSIVE Pow10(_)
Pow10(n) == IF n = 0 THEN 1 ELSE 10 * Pow10(n - 1)

\* a finite number x is stored as the integer x * Scale
Scale == Pow10(FracDigits)

Fin(t) == [k |-> "fin", v |-> t]
NaN == [k |-> "nan", v |-> 0]
PosInf == [k |-> "inf", v |-> 1]
NegInf == [k |-> "inf", v |-> -1]

IsNaN(n) == n.k = "nan"
\* a whole number too large to be stored as n * Scale is stored as n itself
Whole(n) ==
    IF -Pow10(9 - FracDigits) < n /\ n < Pow10(9 - FracDigits)
    THEN Fin(n * Scale) ELSE [k |-> "big", v |-> n]

IsFinite(n) == n.k \in {"fin", "big"}
IsInteger(n) == n.k = "big" \/ (n.k = "fin" /\ n.v % Scale = 0)

\* the JavaScript comparison a < b (false as soon as one side is NaN)
Less(a, b) ==
    IF a.k = "nan" \/ b.k = "nan" THEN FALSE
    ELSE IF a.k = b.k THEN a.v < b.v
    ELSE IF a.k = "inf" THEN a.v < 0
    ELSE IF b.k = "inf" THEN b.v > 0
    ELSE IF b.k = "big" THEN a.v \div Scale < b.v
    ELSE a.v < -((-b.v) \div Scale)

Abs(i) == IF i < 0 THEN -i ELSE i

-----------------------------------------------------------------------------
(* JavaScript values *)

NumberValue(n) == [type |-> "number", num |-> n, str |-> <<>>]
StringValue(s) == [type |-> "string", num |-> NaN, str |-> s]
ObjectValue == [type |-> "object", num |-> NaN, str |-> <<>>]
UndefinedValue == [type |-> "undefined", num |-> NaN, str |-> <<>>]
NullValue == [type |-> "null", num |-> NaN, str |-> <<>>]

Digits == <<"0", "1", "2", "3", "4", "5", "6", "7", "8", "9">>
DigitSet == {Digits[i] : i \in 1..10}
DigitVal(c) == (CHOOSE i \in 1..10 : Digits[i] = c) - 1

\* decimal digits of a natural number
RECURSIVE NatToString(_)
NatToString(n) ==
    IF n < 10 THEN <<Digits[n + 1]>>
    ELSE NatToString(n \div 10) \o <<Digits[(n % 10) + 1]>>

\* fraction digits of f / 10^w without trailing zeros (w digits wide)
RECURSIVE FracToString(_, _)
FracToString(f, w) ==
    IF f = 0 \/ w = 0 THEN <<>>
    ELSE <<Digits[(f \div Pow10(w - 1)) + 1]>> \o FracToString(f % Pow10(w - 1), w - 1)

\* String(n): the decimal string form of a number
NumberToString(n) ==
    IF n.k = "nan" THEN <<"NaN">>
    ELSE IF n.k = "inf" THEN (IF n.v < 0 THEN <<"-">> ELSE <<>>) \o <<"Infinity">>
    ELSE IF n.k = "big" THEN (IF n.v < 0 THEN <<"-">> ELSE <<>>) \o NatToString(Abs(n.v))
    ELSE LET a == Abs(n.v)
             frac == FracToString(a % Scale, FracDigits)
         IN  (IF n.v < 0 THEN <<"-">> ELSE <<>>)
             \o NatToString(a \div Scale)
             \o (IF frac = <<>> THEN <<>> ELSE <<".">> \o frac)

\* length of the longest prefix of s, from position i, made of digits
RECURSIVE DigitRun(_, _)
DigitRun(s, i) ==
    IF i <= Len(s) /\ s[i] \in DigitSet THEN 1 + DigitRun(s, i + 1) ELSE 0

\* value of the digits s[i .. i+n-1] read as a natural number
RECURSIVE DigitsValue(_, _, _)
DigitsValue(s, i, n) ==
    IF n = 0 THEN 0
    ELSE DigitsValue(s, i, n - 1) * 10 + DigitVal(s[i + n - 1])

\* value * Scale of the fraction digits s[i .. i+n-1]
RECURSIVE FractionValue(_, _, _)
FractionValue(s, i, n) ==
    IF n = 0 THEN 0
    ELSE DigitVal(s[i]) * (Scale \div 10) + (FractionValue(s, i + 1, n - 1) \div 10)

SignLen(s) == IF Len(s) >= 1 /\ s[1] \in {"-", "+"} THEN 1 ELSE 0
SignOf(s) == IF Len(s) >= 1 /\ s[1] = "-" THEN -1 ELSE 1

\* parseInt(s, 10): optional sign, then the longest run of digits
ParseInt(s) ==
    LET i == SignLen(s) + 1
        n == DigitRun(s, i)
    IN  IF n = 0 THEN NaN
        ELSE Fin(SignOf(s) * DigitsValue(s, i, n) * Scale)

\* parseFloat(s): optional sign, then Infinity or digits [. digits] or . digits
ParseFloat(s) ==
    LET i == SignLen(s) + 1
        n == DigitRun(s, i)
        dot == i + n <= Len(s) /\ s[i + n] = "."
        m == IF dot THEN DigitRun(s, i + n + 1) ELSE 0
    IN  IF i <= Len(s) /\ s[i] = "Infinity"
            THEN (IF SignOf(s) < 0 THEN NegInf ELSE PosInf)
        ELSE IF n = 0 /\ m = 0 THEN NaN
        ELSE Fin(SignOf(s) * (DigitsValue(s, i, n) * Scale
                              + FractionValue(s, i + n + 1, m)))

-----------------------------------------------------------------------------
(* Outcomes and errors *)

Error(field, code, what) ==
    [field |-> field, code |-> code, what |-> what, source |-> "unknown"]

Return(v) == [kind |-> "return", value |-> v, errors |-> <<>>]
Throw(errors) == [kind |-> "throw", value |-> UndefinedValue, errors |-> errors]

NoResult == [kind |-> "none", value |-> UndefinedValue, errors |-> <<>>]
NoOp == [name |-> "none"]

Codes(errors) == {errors[i].code : i \in 1..Len(errors)}
Whats(errors) == {errors[i].what : i \in 1..Len(errors)}

-----------------------------------------------------------------------------
(* NumericGuard *)

Bool == {TRUE, FALSE}

NumericOptions ==
    [requireBounds : {TRUE}, allowNaN : Bool, allowInfinity : Bool]

\* validate, lines 76-86
CheckNaN(options, num, field) ==
    IF IsNaN(num) /\ ~options.allowNaN
    THEN <<Error(field, "NUMBER_NAN", "nan")>> ELSE <<>>

\* validate, lines 88-98
CheckInfinity(options, num, field) ==
    IF ~IsFinite(num) /\ ~options.allowInfinity
    THEN <<Error(field, "NUMBER_INFINITY", "infinite")>> ELSE <<>>

\* validate, lines 100-108
CheckInteger(num, bounds, field) ==
    IF bounds.integer /\ ~IsInteger(num) /\ IsFinite(num)
    THEN <<Error(field, "VALIDATION_FAILED", "integer")>> ELSE <<>>

\* validate, lines 110-119
CheckMin(num, bounds, field) ==
    IF Less(num, bounds.min)
    THEN <<Error(field, "NUMBER_OUT_OF_RANGE", "min")>> ELSE <<>>

\* upper bound made exclusive
CheckMaxExclusive(num, bounds, field) ==
    IF ~Less(num, bounds.max)
    THEN <<Error(field, "NUMBER_OUT_OF_RANGE", "max")>> ELSE <<>>

\* validate, lines 121-129
CheckMax(num, bounds, field) ==
    IF Less(bounds.max, num)
    THEN <<Error(field, "NUMBER_OUT_OF_RANGE", "max")>> ELSE <<>>

\* validate, lines 60-65: the number a string or number input stands for
NumericParse(value, bounds) ==
    IF value.type = "string"
    THEN (IF bounds.integer THEN ParseInt(value.str) ELSE ParseFloat(value.str))
    ELSE value.num

\* the first element of a list of error lists that is not empty
RECURSIVE FirstNonEmpty(_)
FirstNonEmpty(lists) ==
    IF lists = <<>> THEN <<>>
    ELSE IF lists[1] # <<>> THEN lists[1]
    ELSE FirstNonEmpty(Tail(lists))

\* validate stopping at the first failed check
NumericErrorsFailFast(options, num, bounds, field) ==
    FirstNonEmpty(<<CheckNaN(options, num, field),
                    CheckInfinity(options, num, field),
                    CheckInteger(num, bounds, field),
                    CheckMin(num, bounds, field),
                    CheckMax(num, bounds, field)>>)

\* the error list validate has built when it reaches line 131
NumericErrors(options, num, bounds, field) ==
    CheckNaN(options, num, field)
    \o CheckInfinity(options, num, field)
    \o CheckInteger(num, bounds, field)
    \o CheckMin(num, bounds, field)
    \o CheckMax(num, bounds, field)

NumericGuardValidate(options, value, bounds, field) ==
    IF value.type \notin {"string", "number"}
    THEN Throw(<<Error(field, "VALIDATION_FAILED", "type")>>)
    ELSE LET num == NumericParse(value, bounds)
             errors == NumericErrors(options, num, bounds, field)
         IN  IF Len(errors) > 0 THEN Throw(errors) ELSE Return(NumberValue(num))

\* an optional property is <<>> when absent and <<v>> when set to v
Absent == <<>>
Some(v) == <<v>>

\* the preset ranges
SAFE_RANGES ==
    [port |-> [min |-> Whole(1), max |-> Whole(65535)],
     timeout |-> [min |-> Whole(0), max |-> Whole(300000)],
     retries |-> [min |-> Whole(0), max |-> Whole(10)],
     percentage |-> [min |-> Whole(0), max |-> Whole(100)],
     concurrency |-> [min |-> Whole(1), max |-> Whole(100)],
     temperature |-> [min |-> Whole(0), max |-> Whole(2)],
     maxTokens |-> [min |-> Whole(1), max |-> Whole(1000000)],
     fileSize |-> [min |-> Whole(0), max |-> Whole(100 * 1024 * 1024)],
     lineCount |-> [min |-> Whole(0), max |-> Whole(1000000)]]

\* validateRange, line 149: the preset names that get integer: true
IntegerRanges == {"port", "retries", "concurrency", "maxTokens", "lineCount"}

\* validateRange(value, rangeName, fieldName)
ValidateRange(options, value, rangeName, fieldName) ==
    LET range == SAFE_RANGES[rangeName]
        name == IF fieldName = Absent THEN rangeName ELSE fieldName[1]
    IN  NumericGuardValidate(options, value,
                             [min |-> range.min, max |-> range.max,
                              integer |-> rangeName \in IntegerRanges],
                             name)

\* validateWithDefault(value, bounds, defaultValue, fieldName), lines 156-166
ValidateWithDefault(options, value, bounds, defaultValue, fieldName) ==
    IF value.type \in {"undefined", "null"} THEN Return(NumberValue(defaultValue))
    ELSE NumericGuardValidate(options, value, bounds, fieldName)

\* parseCliArg(value, bounds, fieldName), lines 171-184; bounds.default is
\* optional, and the error thrown for a missing value carries no errors list
ParseCliArg(options, value, bounds, fieldName) ==
    IF value.type = "undefined"
    THEN (IF bounds.default # Absent THEN Return(NumberValue(bounds.default[1]))
          ELSE Throw(<<>>))
    ELSE NumericGuardValidate(options, value, bounds, fieldName)

\* validateMany, lines 201-211: the field has no value
IsMissing(value) == value.type \in {"undefined", "null"}

\* validateMany, lines 203-208
RequiredError(fieldName) == Error(fieldName, "VALIDATION_FAILED", "required")

\* validateMany, lines 199-221: one turn of the loop, on the entry
\* <<fieldName, schema>>, with acc holding result and allErrors
ManyStep(options, values, entry, acc) ==
    LET fieldName == entry[1]
        schema == entry[2]
        value == values[fieldName]
    IN  IF IsMissing(value)
        THEN (IF ~schema.optional
              THEN [acc EXCEPT !.allErrors = Append(@, RequiredError(fieldName))]
              ELSE acc)
        ELSE LET outcome == NumericGuardValidate(options, value, schema, fieldName)
             IN  IF outcome.kind = "return"
                 THEN [acc EXCEPT !.result = Append(@, <<fieldName, outcome.value>>)]
                 ELSE [acc EXCEPT !.allErrors = @ \o outcome.errors]

\* the loop of validateMany over Object.entries(schemas), in insertion order
RECURSIVE ManyLoop(_, _, _, _)
ManyLoop(options, values, entries, acc) ==
    IF entries = <<>> THEN acc
    ELSE ManyLoop(options, values, Tail(entries),
                  ManyStep(options, values, Head(entries), acc))

\* the loop of validateMany leaving at the first field in error
RECURSIVE ManyLoopUntilError(_, _, _, _)
ManyLoopUntilError(options, values, entries, acc) ==
    IF entries = <<>> \/ acc.allErrors # <<>> THEN acc
    ELSE ManyLoopUntilError(options, values, Tail(entries),
                            ManyStep(options, values, Head(entries), acc))

\* a map is the list of its <<key, value>> entries in insertion order
MapValue(entries) == [type |-> "object", num |-> NaN, str |-> <<>>, entries |-> entries]

\* validateMany reporting the first field in error only
ValidateManyFirstField(options, values, schemas) ==
    LET acc == ManyLoopUntilError(options, values, schemas, [result |-> <<>>, allErrors |-> <<>>])
    IN  IF Len(acc.allErrors) > 0 THEN Throw(acc.allErrors)
        ELSE Return(MapValue(acc.result))
\* validateMany(values, schemas)
ValidateMany(options, values, schemas) ==
    LET acc == ManyLoop(options, values, schemas, [result |-> <<>>, allErrors |-> <<>>])
    IN  IF Len(acc.allErrors) > 0 THEN Throw(acc.allErrors)
        ELSE Return(MapValue(acc.result))

-----------------------------------------------------------------------------
(* Characters.  A character is a symbol standing for one code point. *)

CharCode(c) ==
    CASE c = "NUL" -> 0
      [] c = "BEL" -> 7
      [] c = "TAB" -> 9
      [] c = "VT" -> 11
      [] c = "ESC" -> 27
      [] c = " " -> 32
      [] c = "$" -> 36
      [] c = "'" -> 39
      [] c = "%" -> 37
      [] c = "-" -> 45
      [] c = "." -> 46
      [] c = "/" -> 47
      [] c = "0" -> 48
      [] c = "1" -> 49
      [] c = "2" -> 50
      [] c = "3" -> 51
      [] c = "5" -> 53
      [] c = ";" -> 59
      [] c = "O" -> 79
      [] c = "[" -> 91
      [] c = "\\" -> 92
      [] c = "a" -> 97
      [] c = "e" -> 101
      [] c = "m" -> 109
      [] c = "o" -> 111
      [] c = "r" -> 114
      [] c = "~" -> 126
      [] c = "DEL" -> 127
      [] OTHER -> 120

\* /\0/
IsNullByte(c) == CharCode(c) = 0

\* /[\x00-\x08\x0b\x0c\x0e-\x1f\x7f]/
IsControlChar(c) ==
    CharCode(c) \in (0..8) \cup {11, 12} \cup (14..31) \cup {127}

\* /[;&|`$(){}[\]<>!#*?]/
IsShellMeta(c) ==
    CharCode(c) \in {59, 38, 124, 96, 36, 40, 41, 123, 125, 91, 93, 60, 62, 33, 35, 42, 63}

\* the white space and line terminators String.prototype.trim removes
IsTrimSpace(c) == CharCode(c) \in {9, 10, 11, 12, 13, 32, 160}

HasChar(s, P(_)) == \E i \in 1..Len(s) : P(s[i])

\* /\x1b\[/
HasAnsiEscape(s) ==
    \E i \in 1..(Len(s) - 1) : CharCode(s[i]) = 27 /\ CharCode(s[i + 1]) = 91

RECURSIVE TrimStart(_)
TrimStart(s) ==
    IF s # <<>> /\ IsTrimSpace(s[1]) THEN TrimStart(Tail(s)) ELSE s

RECURSIVE TrimEnd(_)
TrimEnd(s) ==
    IF s # <<>> /\ IsTrimSpace(s[Len(s)]) THEN TrimEnd(SubSeq(s, 1, Len(s) - 1)) ELSE s

\* String.prototype.trim
Trim(s) == TrimEnd(TrimStart(s))

-----------------------------------------------------------------------------
(* StringGuard *)

\* a regular expression is modelled by its name; /^[a-z]+$/ is "letters"
PatternTest(pattern, s) ==
    s # <<>> /\ \A i \in 1..Len(s) : CharCode(s[i]) \in 97..122

\* validate, lines 101-109
CheckNullBytes(options, str, field) ==
    IF ~options.allowNullBytes /\ HasChar(str, IsNullByte)
    THEN <<Error(field, "STRING_NULL_BYTE", "null")>> ELSE <<>>

\* control characters checked on the range \x00-\x08 only
CheckControlCharsNarrow(options, str, field) ==
    IF ~options.allowControlChars /\ \E i \in 1..Len(str) : CharCode(str[i]) \in 0..8
    THEN <<Error(field, "STRING_CONTROL_CHAR", "control")>> ELSE <<>>

\* validate, lines 111-119
CheckControlChars(options, str, field) ==
    IF ~options.allowControlChars /\ HasChar(str, IsControlChar)
    THEN <<Error(field, "STRING_CONTROL_CHAR", "control")>> ELSE <<>>

\* validate, lines 121-129
CheckAnsiEscape(str, field) ==
    IF HasAnsiEscape(str)
    THEN <<Error(field, "STRING_CONTROL_CHAR", "ansi")>> ELSE <<>>

\* validate, lines 131-139
CheckShellMeta(constraints, str, field) ==
    IF constraints.blockShellMeta /\ HasChar(str, IsShellMeta)
    THEN <<Error(field, "VALIDATION_FAILED", "shell")>> ELSE <<>>

\* validate, lines 141-150
CheckMaxLength(options, constraints, str, field) ==
    LET maxLen == IF constraints.maxLength # Absent THEN constraints.maxLength[1]
                  ELSE options.maxLength
    IN  IF Len(str) > maxLen
        THEN <<Error(field, "STRING_TOO_LONG", "maxLength")>> ELSE <<>>

\* validate, lines 152-159
CheckMinLength(constraints, str, field) ==
    IF constraints.minLength # Absent /\ Len(str) < constraints.minLength[1]
    THEN <<Error(field, "VALIDATION_FAILED", "minLength")>> ELSE <<>>

\* validate, lines 161-170
CheckPattern(constraints, str, field) ==
    IF constraints.pattern # Absent /\ ~PatternTest(constraints.pattern[1], str)
    THEN <<Error(field, "STRING_PATTERN_MISMATCH", "pattern")>> ELSE <<>>

\* validate, lines 172-180
CheckAllowedValues(constraints, str, field) ==
    IF constraints.allowedValues # Absent /\ str \notin constraints.allowedValues[1]
    THEN <<Error(field, "VALIDATION_FAILED", "allowedValues")>> ELSE <<>>

\* validate, lines 94-99: the string the checks are run on
StringPrepare(constraints, s) ==
    IF constraints.trim THEN Trim(s) ELSE s

\* the error list validate has built when it reaches line 182
StringErrors(options, constraints, str, field) ==
    CheckNullBytes(options, str, field)
    \o CheckControlChars(options, str, field)
    \o CheckAnsiEscape(str, field)
    \o CheckShellMeta(constraints, str, field)
    \o CheckMaxLength(options, constraints, str, field)
    \o CheckMinLength(constraints, str, field)
    \o CheckPattern(constraints, str, field)
    \o CheckAllowedValues(constraints, str, field)

StringGuardValidate(options, value, constraints, field) ==
    IF value.type # "string"
    THEN Throw(<<Error(field, "VALIDATION_FAILED", "type")>>)
    ELSE LET str == StringPrepare(constraints, value.str)
             errors == StringErrors(options, constraints, str, field)
         IN  IF Len(errors) > 0 THEN Throw(errors) ELSE Return(StringValue(str))

\* \w of a regular expression: [A-Za-z0-9_]
IsWordChar(c) ==
    CharCode(c) \in (48..57) \cup (65..90) \cup {95} \cup (97..122)

\* the code of the lower-case form of a character, for the flag i
LowerCode(c) ==
    IF CharCode(c) \in 65..90 THEN CharCode(c) + 32 ELSE CharCode(c)

\* OR, AND, UNION, SELECT, INSERT, UPDATE, DELETE, DROP as lower-case codes
SqlKeywords ==
    {<<111, 114>>, <<97, 110, 100>>, <<117, 110, 105, 111, 110>>,
     <<115, 101, 108, 101, 99, 116>>, <<105, 110, 115, 101, 114, 116>>,
     <<117, 112, 100, 97, 116, 101>>, <<100, 101, 108, 101, 116, 101>>,
     <<100, 114, 111, 112>>}

\* \b(keyword)\b matches the characters of str from position i on
KeywordAt(str, i, keyword) ==
    /\ i + Len(keyword) - 1 <= Len(str)
    /\ \A j \in 1..Len(keyword) : LowerCode(str[i + j - 1]) = keyword[j]
    /\ (i = 1 \/ ~IsWordChar(str[i - 1]))
    /\ (i + Len(keyword) > Len(str) \/ ~IsWordChar(str[i + Len(keyword)]))

\* DANGEROUS_PATTERNS.sqlInjection:
\* /('|"|;|--|\b(OR|AND|UNION|SELECT|INSERT|UPDATE|DELETE|DROP)\b)/i
SqlInjectionTest(str) ==
    \/ \E i \in 1..Len(str) : CharCode(str[i]) \in {39, 34, 59}
    \/ \E i \in 1..(Len(str) - 1) : CharCode(str[i]) = 45 /\ CharCode(str[i + 1]) = 45
    \/ \E i \in 1..Len(str) : \E keyword \in SqlKeywords : KeywordAt(str, i, keyword)

Finding(suspicious, reason) ==
    [type |-> "finding", suspicious |-> suspicious, reason |-> reason]

\* detectInjection(value), lines 281-292
DetectInjection(value) ==
    IF SqlInjectionTest(value) THEN Finding(TRUE, Some("potential SQL injection"))
    ELSE IF HasChar(value, IsShellMeta) THEN Finding(TRUE, Some("shell metacharacters"))
    ELSE IF HasAnsiEscape(value) THEN Finding(TRUE, Some("ANSI escape sequences"))
    ELSE Finding(FALSE, Absent)

\* String.prototype.substring(0, n): n is truncated to an integer, NaN and
\* negative numbers count as 0, numbers beyond the length as the length
Substring(str, n) ==
    LET end == IF n.k = "nan" THEN 0
               ELSE IF n.k = "inf" THEN (IF n.v < 0 THEN 0 ELSE Len(str))
               ELSE IF n.k = "big" THEN (IF n.v < 0 THEN 0 ELSE Len(str))
               ELSE IF n.v < 0 THEN 0
               ELSE IF n.v \div Scale > Len(str) THEN Len(str)
               ELSE n.v \div Scale
    IN  SubSeq(str, 1, end)

\* /[\x00-\x1f\x7f]/
IsAnyControl(c) == CharCode(c) \in (0..31) \cup {127}

\* replace(/[\x00-\x1f\x7f]/g, '')
RemoveControlChars(str) == SelectSeq(str, LAMBDA c : ~IsAnyControl(c))

\* length of the longest run of [0-9;] in str from position i
RECURSIVE ParamRun(_, _)
ParamRun(str, i) ==
    IF i <= Len(str) /\ (CharCode(str[i]) \in 48..57 \/ CharCode(str[i]) = 59)
    THEN 1 + ParamRun(str, i + 1) ELSE 0

\* length of the match of /\x1b\[[0-9;]*m/ at the start of str, 0 if none
AnsiColorMatch(str) ==
    IF Len(str) >= 3 /\ CharCode(str[1]) = 27 /\ CharCode(str[2]) = 91
    THEN LET end == 3 + ParamRun(str, 3)
         IN  IF end <= Len(str) /\ CharCode(str[end]) = 109 THEN end ELSE 0
    ELSE 0

\* replace(/\x1b\[[0-9;]*m/g, '')
RECURSIVE RemoveAnsiColors(_)
RemoveAnsiColors(str) ==
    IF str = <<>> THEN <<>>
    ELSE LET n == AnsiColorMatch(str)
         IN  IF n > 0 THEN RemoveAnsiColors(SubSeq(str, n + 1, Len(str)))
             ELSE <<Head(str)>> \o RemoveAnsiColors(Tail(str))

\* sanitize removing the colour sequences only
SanitizeAnsiOnly(value, maxLength) ==
    RemoveAnsiColors(Substring(value, maxLength))
\* sanitize(value, maxLength), lines 269-276
Sanitize(value, maxLength) ==
    RemoveAnsiColors(RemoveControlChars(Substring(value, maxLength)))

-----------------------------------------------------------------------------
(* PathGuard *)

HexDigits == DigitSet \cup {"a", "b", "c", "d", "e", "f", "A", "B", "C", "D", "E", "F"}

\* the character the escape %hl stands for
HexChar(h, l) ==
    CASE h = "2" /\ l \in {"e", "E"} -> "."
      [] h = "2" /\ l \in {"f", "F"} -> "/"
      [] h = "2" /\ l = "5" -> "%"
      [] h = "5" /\ l \in {"c", "C"} -> "\\"
      [] OTHER -> "x"

\* one round of percent-decoding
RECURSIVE PercentDecode(_)
PercentDecode(s) ==
    IF s = <<>> THEN <<>>
    ELSE IF Len(s) >= 3 /\ s[1] = "%" /\ s[2] \in HexDigits /\ s[3] \in HexDigits
         THEN <<HexChar(s[2], s[3])>> \o PercentDecode(SubSeq(s, 4, Len(s)))
    ELSE <<s[1]>> \o PercentDecode(Tail(s))

\* decoding stopped after the first round
DecodeOnce(s) == PercentDecode(s)

\* percent-decoding repeated until nothing changes
RECURSIVE FullyDecode(_)
FullyDecode(s) ==
    LET d == PercentDecode(s)
    IN  IF d = s THEN s ELSE FullyDecode(d)

\* backslashes read as separators
SlashForm(s) == [i \in 1..Len(s) |-> IF s[i] = "\\" THEN "/" ELSE s[i]]

NormalizePath(path) == SlashForm(FullyDecode(path))

\* the segments of s between the separators in seps
RECURSIVE SplitOn(_, _)
SplitOn(s, seps) ==
    IF \A i \in 1..Len(s) : s[i] \notin seps THEN <<s>>
    ELSE LET i == CHOOSE j \in 1..Len(s) :
                      s[j] \in seps /\ \A k \in 1..(j - 1) : s[k] \notin seps
         IN  <<SubSeq(s, 1, i - 1)>> \o SplitOn(SubSeq(s, i + 1, Len(s)), seps)

Segments(s) == SplitOn(s, {"/"})

HasParentSegment(segs) == \E i \in 1..Len(segs) : segs[i] = <<".", ".">>

ContainsDotDot(s) == \E i \in 1..(Len(s) - 1) : s[i] = "." /\ s[i + 1] = "."

IsPrefix(p, s) == Len(p) <= Len(s) /\ SubSeq(s, 1, Len(p)) = p

IsAbsolutePath(s) == s # <<>> /\ s[1] \in {"/", "\\"}

\* the directory relative paths are resolved in
WorkingDir == <<"/", "a">>

ResolvePath(s) ==
    IF IsAbsolutePath(s) THEN SlashForm(s) ELSE WorkingDir \o <<"/">> \o SlashForm(s)

IsWithin(s, base) ==
    /\ IsPrefix(base, s)
    /\ (Len(s) = Len(base) \/ s[Len(base) + 1] = "/")

\* the extension of the last segment, <<>> when it has none
Extension(s) ==
    LET segs == Segments(SlashForm(s))
        last == segs[Len(segs)]
        dots == {i \in 2..Len(last) : last[i] = "."}
    IN  IF dots = {} THEN <<>>
        ELSE SubSeq(last, CHOOSE i \in dots : \A j \in dots : j <= i, Len(last))

IsHiddenSegment(seg) ==
    seg # <<>> /\ seg[1] = "." /\ seg \notin {<<".">>, <<".", ".">>}

\* step 1: empty input
CheckPathEmpty(path, field) ==
    IF path = <<>>
    THEN <<Error(field, "VALIDATION_FAILED", "empty")>> ELSE <<>>

\* step 2: parent-directory segments, plain or encoded
CheckTraversal(path, field) ==
    IF HasParentSegment(Segments(NormalizePath(path))) \/ ContainsDotDot(path)
    THEN <<Error(field, "PATH_TRAVERSAL",
                 IF FullyDecode(path) # path THEN "dangerous" ELSE "traversal")>>
    ELSE <<>>

\* step 3: embedded null bytes
CheckPathNullByte(path, field) ==
    IF HasChar(path, IsNullByte)
    THEN <<Error(field, "PATH_TRAVERSAL", "dangerous")>> ELSE <<>>

\* step 4: maxPathLength
CheckPathLength(options, path, field) ==
    IF Len(path) > options.maxPathLength
    THEN <<Error(field, "PATH_TOO_LONG", "length")>> ELSE <<>>

\* step 5: allowedBaseDirs
CheckBaseDirs(options, path, field) ==
    IF /\ options.allowedBaseDirs # {}
       /\ \A base \in options.allowedBaseDirs : ~IsWithin(ResolvePath(path), base)
    THEN <<Error(field, "PATH_OUTSIDE_ALLOWED", "outside allowed")>> ELSE <<>>

\* step 6: allowedExtensions
CheckExtension(options, path, field) ==
    IF options.allowedExtensions # {} /\ Extension(path) \notin options.allowedExtensions
    THEN <<Error(field, "PATH_INVALID_EXTENSION", "extension")>> ELSE <<>>

\* step 7: hidden files
CheckHidden(options, path, field) ==
    IF /\ ~options.allowHiddenFiles
       /\ LET segs == Segments(SlashForm(path))
          IN  \E i \in 1..Len(segs) : IsHiddenSegment(segs[i])
    THEN <<Error(field, "PATH_HIDDEN_FILE", "Hidden")>> ELSE <<>>

\* step 8: absolute paths
CheckAbsolute(options, path, field) ==
    IF ~options.allowAbsolutePaths /\ IsAbsolutePath(path)
    THEN <<Error(field, "PATH_ABSOLUTE_NOT_ALLOWED", "Absolute")>> ELSE <<>>

PathErrors(options, path, field) ==
    CheckPathEmpty(path, field)
    \o CheckTraversal(path, field)
    \o CheckPathNullByte(path, field)
    \o CheckPathLength(options, path, field)
    \o CheckBaseDirs(options, path, field)
    \o CheckExtension(options, path, field)
    \o CheckHidden(options, path, field)
    \o CheckAbsolute(options, path, field)

PathGuardValidate(options, path, field) ==
    LET errors == PathErrors(options, path, field)
    IN  IF Len(errors) > 0 THEN Throw(errors) ELSE Return(StringValue(path))

-----------------------------------------------------------------------------
(* Security configuration: defaults.ts *)

\* { ...a, ...b }: the properties of b layered over those of a
Spread(a, b) ==
    [k \in (DOMAIN a) \cup (DOMAIN b) |-> IF k \in DOMAIN b THEN b[k] ELSE a[k]]

\* an object without properties
EmptyObject == <<>>

\* x.k, or the empty object when x has no property k
PropertyOrEmpty(x, k) == IF k \in DOMAIN x THEN x[k] ELSE EmptyObject

DEVELOPMENT_SECURITY_CONFIG ==
    [profile |-> "development",
     paths |-> [allowedBaseDirs |-> {}, maxPathLength |-> 1000, allowedExtensions |-> {},
                allowHiddenFiles |-> TRUE, validateSymlinks |-> FALSE,
                allowAbsolutePaths |-> TRUE],
     numbers |-> [requireBounds |-> FALSE, defaultMin |-> "MIN_SAFE_INTEGER",
                  defaultMax |-> "MAX_SAFE_INTEGER", allowNaN |-> FALSE,
                  allowInfinity |-> FALSE],
     strings |-> [maxLength |-> 10000, allowNullBytes |-> FALSE,
                  allowControlChars |-> FALSE],
     failOnError |-> FALSE,
     auditLogging |-> TRUE]

PRODUCTION_SECURITY_CONFIG ==
    [profile |-> "production",
     paths |-> [maxPathLength |-> 500, allowHiddenFiles |-> FALSE,
                validateSymlinks |-> TRUE, allowAbsolutePaths |-> FALSE],
     numbers |-> [requireBounds |-> TRUE, allowNaN |-> FALSE, allowInfinity |-> FALSE],
     strings |-> [maxLength |-> 5000, allowNullBytes |-> FALSE,
                  allowControlChars |-> FALSE],
     failOnError |-> TRUE,
     auditLogging |-> TRUE]

GetSecurityConfig(profile) ==
    IF profile = "production" THEN PRODUCTION_SECURITY_CONFIG
    ELSE DEVELOPMENT_SECURITY_CONFIG

MergeSecurityConfig(userConfig, profile) ==
    LET baseConfig == GetSecurityConfig(profile)
    IN  Spread(Spread(baseConfig, userConfig),
               [paths |-> Spread(baseConfig.paths, PropertyOrEmpty(userConfig, "paths")),
                numbers |-> Spread(baseConfig.numbers, PropertyOrEmpty(userConfig, "numbers")),
                strings |-> Spread(baseConfig.strings, PropertyOrEmpty(userConfig, "strings"))])

-----------------------------------------------------------------------------
(* Guard construction *)

\* NumericGuard constructor
NewNumericGuard(options) ==
    Spread([requireBounds |-> TRUE, allowNaN |-> FALSE, allowInfinity |-> FALSE,
            defaultMin |-> "MIN_SAFE_INTEGER", defaultMax |-> "MAX_SAFE_INTEGER"],
           options)

\* StringGuard constructor
NewStringGuard(options) ==
    Spread([maxLength |-> 1000, allowNullBytes |-> FALSE, allowControlChars |-> FALSE],
           options)

\* PathGuard constructor: a complete policy from a partial one
NewPathGuard(options) ==
    Spread([allowedBaseDirs |-> {}, maxPathLength |-> 500, allowedExtensions |-> {},
            allowHiddenFiles |-> FALSE, validateSymlinks |-> TRUE,
            allowAbsolutePaths |-> TRUE],
           options)

-----------------------------------------------------------------------------
(* CLIValidator and ConfigValidator *)

\* the order in which fields are visited
FieldOrder == <<"configDirectory", "timeout", "model">>

FieldNames == {FieldOrder[i] : i \in 1..Len(FieldOrder)}

\* the lower-cased words of a camel-case field name
NameWords(name) ==
    CASE name = "configDirectory" -> {"config", "directory"}
      [] OTHER -> {name}

\* the name-based path heuristic
IsPathLikeName(name) == NameWords(name) \cap {"path", "directory", "file"} # {}

\* the metadata registerFromSchema derives for one schema field
FieldMeta(name, desc) ==
    [kind |-> desc.kind,
     isPath |-> desc.kind = "string" /\ IsPathLikeName(name),
     bounds |-> IF desc.kind = "number" /\ desc.bounds # Absent THEN desc.bounds
                ELSE Absent,
     required |-> FALSE]

RegisterFromSchema(registered, schema) ==
    Spread(registered, [name \in DOMAIN schema |-> FieldMeta(name, schema[name])])

NoConstraints ==
    [minLength |-> Absent, maxLength |-> Absent, pattern |-> Absent,
     allowedValues |-> Absent, blockShellMeta |-> FALSE, trim |-> FALSE]

IsPresent(values, name) ==
    name \in DOMAIN values /\ values[name].type \notin {"undefined", "null"}

WithSource(errors, source) ==
    [i \in 1..Len(errors) |-> [errors[i] EXCEPT !.source = source]]

\* the errors of one value under the guard its metadata selects
FieldErrors(cfg, meta, name, value, source) ==
    WithSource(
        IF meta.kind = "string"
        THEN StringGuardValidate(NewStringGuard(cfg.strings), value, NoConstraints, name).errors
             \o (IF meta.isPath /\ value.type = "string"
                 THEN PathGuardValidate(NewPathGuard(cfg.paths), value.str, name).errors
                 ELSE <<>>)
        ELSE IF meta.kind = "number" /\ meta.bounds # Absent
        THEN NumericGuardValidate(NewNumericGuard(cfg.numbers), value, meta.bounds[1], name).errors
        ELSE <<>>,
        source)

RECURSIVE AllFieldErrors(_, _, _, _, _)
AllFieldErrors(cfg, registered, values, source, i) ==
    IF i > Len(FieldOrder) THEN <<>>
    ELSE LET name == FieldOrder[i]
         IN  (IF name \in DOMAIN registered /\ IsPresent(values, name)
              THEN FieldErrors(cfg, registered[name], name, values[name], source)
              ELSE <<>>)
             \o AllFieldErrors(cfg, registered, values, source, i + 1)

Warning(field, code, what) == [field |-> field, code |-> code, what |-> what]

\* production only: a value whose name is not registered is warned about
RECURSIVE UnregisteredWarnings(_, _, _, _)
UnregisteredWarnings(cfg, registered, values, i) ==
    IF i > Len(FieldOrder) THEN <<>>
    ELSE LET name == FieldOrder[i]
         IN  (IF /\ cfg.profile = "production"
                 /\ name \in DOMAIN values
                 /\ name \notin DOMAIN registered
              THEN <<Warning(name, "PERMISSIVE_PATTERN", "unregistered")>>
              ELSE <<>>)
             \o UnregisteredWarnings(cfg, registered, values, i + 1)

\* validateArgs (source "cli") and validateConfig (source "config")
ValidatorResult(cfg, registered, values, source) ==
    LET errors == AllFieldErrors(cfg, registered, values, source, 1)
    IN  [valid |-> Len(errors) = 0 \/ ~cfg.failOnError,
         errors |-> errors,
         warnings |-> UnregisteredWarnings(cfg, registered, values, 1),
         source |-> source]

-----------------------------------------------------------------------------
(* SecurityValidator *)

\* constructor, line 48
NewSecurityValidator(userConfig) ==
    MergeSecurityConfig(userConfig,
                        IF "profile" \in DOMAIN userConfig THEN userConfig.profile
                        ELSE "development")

\* a validator for the development profile whatever profile is asked for
CreateSecurityValidatorForDevelopment(profile) ==
    NewSecurityValidator(DEVELOPMENT_SECURITY_CONFIG)

CreateSecurityValidatorForProfile(profile) ==
    NewSecurityValidator(IF profile = "production" THEN PRODUCTION_SECURITY_CONFIG
                         ELSE DEVELOPMENT_SECURITY_CONFIG)

HasCharacter(s, c) == \E i \in 1..Len(s) : s[i] = c

\* checkPath, lines 233-252
CheckPath(value, path) ==
    IF value.type = "string"
    THEN (IF HasCharacter(value.str, "~")
          THEN <<Warning(path, "PERMISSIVE_PATTERN", "home")>> ELSE <<>>)
         \o (IF HasCharacter(value.str, "$")
             THEN <<Warning(path, "PERMISSIVE_PATTERN", "env")>> ELSE <<>>)
    ELSE <<>>

\* Object.entries of a value: the <<key, value>> pairs an object or an array
\* holds, none for a value modelled without its properties
Kids(value) == IF "kids" \in DOMAIN value THEN value.kids ELSE <<>>

\* walkObject(obj, prefix, callback), lines 260-273, with checkPath as the
\* callback; entries is Object.entries(obj)
RECURSIVE WalkEntries(_, _)
WalkEntries(entries, prefix) ==
    IF entries = <<>> THEN <<>>
    ELSE LET key == entries[1][1]
             value == entries[1][2]
             path == IF prefix # "" THEN prefix \o "." \o key ELSE key
         IN  CheckPath(value, path)
             \o (IF value.type = "object"
                 THEN WalkEntries(Kids(value), path) ELSE <<>>)
             \o WalkEntries(Tail(entries), prefix)

\* Object.entries of the merged configuration, from the i-th field on
RECURSIVE MergedEntries(_, _)
MergedEntries(obj, i) ==
    IF i > Len(FieldOrder) THEN <<>>
    ELSE (IF FieldOrder[i] \in DOMAIN obj
          THEN <<<<FieldOrder[i], obj[FieldOrder[i]]>>>> ELSE <<>>)
         \o MergedEntries(obj, i + 1)

\* walkObject over the entries of the merged configuration
WalkObject(obj, i) == WalkEntries(MergedEntries(obj, i), "")

\* the suspicious patterns looked for under every profile
ValidateCrossSourcesAnyProfile(cfg, merged, cliArgs, configValues) ==
    [errors |-> <<>>, warnings |-> WalkObject(merged, 1)]

\* validateCrossSources, lines 200-223
ValidateCrossSources(cfg, merged, cliArgs, configValues) ==
    [errors |-> <<>>,
     warnings |-> IF cfg.profile = "production" THEN WalkObject(merged, 1) ELSE <<>>]

\* validity decided by the error list alone
MergedValidIgnoringFailOnError(cfg, allErrors) == Len(allErrors) = 0

\* validateMerged, line 139
MergedValid(cfg, allErrors) == Len(allErrors) = 0 \/ ~cfg.failOnError

\* the errors of the config source left out
MergedErrorsWithoutConfig(cli, conf, cross) == cli.errors \o cross.errors

\* validateMerged, lines 126, 131 and 136
MergedErrors(cli, conf, cross) == cli.errors \o conf.errors \o cross.errors

\* validateMerged, lines 127, 132 and 137
MergedWarnings(cli, conf, cross) == cli.warnings \o conf.warnings \o cross.warnings

ValidateMerged(cfg, registered, merged, cliArgs, configValues) ==
    LET cli == ValidatorResult(cfg, registered, cliArgs, "cli")
        conf == ValidatorResult(cfg, registered, configValues, "config")
        cross == ValidateCrossSources(cfg, merged, cliArgs, configValues)
        allErrors == MergedErrors(cli, conf, cross)
    IN  [valid |-> MergedValid(cfg, allErrors),
         errors |-> allErrors,
         warnings |-> MergedWarnings(cli, conf, cross),
         bySource |-> [cli |-> cli, config |-> conf]]

\* one call of a method of the Logger
LogLine(level, what, source, field, code, count) ==
    [level |-> level, what |-> what, source |-> source, field |-> field,
     code |-> code, count |-> count]

\* logResult, lines 281-286: one line for each error
ErrorLines(errors) ==
    [i \in 1..Len(errors) |->
        LogLine("warn", "error", errors[i].source, errors[i].field, errors[i].code, 1)]

\* logResult, lines 289-293: one line for each warning
WarningLines(source, warnings) ==
    [i \in 1..Len(warnings) |->
        LogLine("debug", "warning", source, warnings[i].field, warnings[i].code, 1)]

\* logResult(source, result), lines 278-294
LogResult(cfg, log, source, res) ==
    IF ~cfg.auditLogging \/ ~log.logger THEN log
    ELSE [log EXCEPT !.lines =
            @ \o (IF Len(res.errors) > 0
                  THEN <<LogLine("warn", "failed", source, "", "", Len(res.errors))>>
                       \o ErrorLines(res.errors)
                  ELSE <<>>)
              \o WarningLines(source, res.warnings)]

\* logAggregatedResult(result), lines 299-311
LogAggregatedResult(cfg, log, res) ==
    IF ~cfg.auditLogging \/ ~log.logger THEN log
    ELSE [log EXCEPT !.lines =
            Append(@, IF Len(res.errors) > 0
                      THEN LogLine("warn", "completed", "", "", "", Len(res.errors))
                      ELSE IF Len(res.warnings) > 0
                      THEN LogLine("info", "passed", "", "", "", Len(res.warnings))
                      ELSE LogLine("debug", "passed", "", "", "", 0))]

-----------------------------------------------------------------------------
(* ProfileManager: profiles.ts *)

Profiles == {"development", "production", "custom"}

SECURITY_PROFILES ==
    [development |-> DEVELOPMENT_SECURITY_CONFIG,
     production |-> PRODUCTION_SECURITY_CONFIG,
     custom |-> DEVELOPMENT_SECURITY_CONFIG]

GetProfileConfig(profile) == SECURITY_PROFILES[profile]

\* detectProfile: the environment decides between the two fixed profiles
DetectedProfiles == {"development", "production"}

GetProfile == currentProfile

GetConfig == currentConfig

\* the loop stopped after the first listener
NotifyFirstListener(ls, profile, cfg) ==
    [i \in 1..(IF Len(ls) = 0 THEN 0 ELSE 1) |->
        [listener |-> ls[i], profile |-> profile, config |-> cfg]]

\* notifyListeners: the invocations made, in order
NotifyListeners(ls, profile, cfg) ==
    [i \in 1..Len(ls) |-> [listener |-> ls[i], profile |-> profile, config |-> cfg]]

\* listeners.indexOf(listener), 0 standing for -1
IndexOf(ls, l) ==
    IF \E i \in 1..Len(ls) : ls[i] = l
    THEN CHOOSE i \in 1..Len(ls) : ls[i] = l /\ \A j \in 1..(i - 1) : ls[j] # l
    ELSE 0

\* listeners.splice(index, 1)
Splice(ls, index) == SubSeq(ls, 1, index - 1) \o SubSeq(ls, index + 1, Len(ls))

\* the function onProfileChange returns
Unsubscribed(ls, l) == IF IndexOf(ls, l) >= 1 THEN Splice(ls, IndexOf(ls, l)) ELSE ls

-----------------------------------------------------------------------------
(* SecurityAuditLogger: audit-logger.ts *)
(* A message is the sequence of the pieces a template literal joins. *)

DEFAULT_AUDIT_CONFIG ==
    [enabled |-> TRUE, minSeverity |-> "info", includeSensitiveDetails |-> FALSE]

Severities == {"info", "warning", "error", "critical"}

SEVERITY_ORDER == [info |-> 0, warning |-> 1, error |-> 2, critical |-> 3]

maxBufferSize == 100

\* constructor, lines 82-85
NewAuditLogger(logger, userConfig) ==
    [config |-> Spread(DEFAULT_AUDIT_CONFIG, userConfig), logger |-> logger,
     correlationId |-> Absent, eventBuffer |-> <<>>]

\* one property of event.details: its key and its value as JSON text
Detail(key, value) == [key |-> key, value |-> value]

Event(type, severity, source, message, details, errorCode) ==
    [type |-> type, severity |-> severity, source |-> source, message |-> message,
     details |-> details, errorCode |-> errorCode]

\* process.env.HOME
Home == <<"/", "h">>

\* path.replace(home, '~') for a path that starts with home
ReplaceHome(path) == <<"~">> \o SubSeq(path, Len(Home) + 1, Len(path))

SanitizePath(cfg, path) ==
    IF cfg.includeSensitiveDetails THEN path
    ELSE LET p == IF IsPrefix(Home, path) THEN ReplaceHome(path) ELSE path
         IN  IF Len(p) > 100
             THEN <<"...">> \o SubSeq(p, Len(p) - 97 + 1, Len(p))
             ELSE p

RECURSIVE SanitizeErrors(_)
SanitizeErrors(errors) ==
    IF errors = <<>> THEN <<>>
    ELSE <<"{", "field", ":", errors[1].field, "code", ":", errors[1].code, "}">>
         \o SanitizeErrors(Tail(errors))

ValidationStarted(source, fieldCount) ==
    Event("VALIDATION_STARTED", "info", source,
          <<"Security validation started for ", source>>,
          <<Detail("fieldCount", NatToString(fieldCount))>>, Absent)

ValidationPassed(source, warningCount) ==
    Event("VALIDATION_PASSED", IF warningCount > 0 THEN "warning" ELSE "info", source,
          IF warningCount > 0
          THEN <<"Security validation passed with ">> \o NatToString(warningCount)
               \o <<" warning(s)">>
          ELSE <<"Security validation passed">>,
          <<Detail("warningCount", NatToString(warningCount))>>, Absent)

ValidationFailed(source, errors) ==
    Event("VALIDATION_FAILED", "error", source,
          <<"Security validation failed with ">> \o NatToString(Len(errors))
          \o <<" error(s)">>,
          <<Detail("errorCount", NatToString(Len(errors))),
            Detail("errors", SanitizeErrors(errors))>>, Absent)

PathBlocked(cfg, path, reason, source, errorCode) ==
    Event("PATH_BLOCKED", "warning", source, <<"Path blocked: ", reason>>,
          <<Detail("path", SanitizePath(cfg, path)), Detail("reason", <<reason>>)>>,
          errorCode)

\* the rejected value placed in the details as well
NumericRejectedWithValue(field, value, reason, source) ==
    Event("NUMERIC_REJECTED", "warning", source,
          <<"Numeric value rejected for ", field, ": ", reason>>,
          <<Detail("field", <<field>>), Detail("reason", <<reason>>),
            Detail("value", NumberToString(value))>>, Absent)

NumericRejected(field, value, reason, source) ==
    Event("NUMERIC_REJECTED", "warning", source,
          <<"Numeric value rejected for ", field, ": ", reason>>,
          <<Detail("field", <<field>>), Detail("reason", <<reason>>)>>, Absent)

StringRejected(field, reason, source, errorCode) ==
    Event("STRING_REJECTED", "warning", source,
          <<"String value rejected for ", field, ": ", reason>>,
          <<Detail("field", <<field>>), Detail("reason", <<reason>>)>>, errorCode)

ProfileChanged(oldProfile, newProfile) ==
    Event("PROFILE_CHANGED", "info", "system",
          <<"Security profile changed from ", oldProfile, " to ", newProfile>>,
          <<Detail("oldProfile", <<oldProfile>>), Detail("newProfile", <<newProfile>>)>>,
          Absent)

ConfigLoaded(cfg, filePath, fieldCount) ==
    Event("CONFIG_LOADED", "info", "config",
          <<"Configuration loaded from ">> \o SanitizePath(cfg, filePath),
          <<Detail("file", SanitizePath(cfg, filePath)),
            Detail("fieldCount", NatToString(fieldCount))>>, Absent)

SuspiciousPattern(field, pattern, source) ==
    Event("SUSPICIOUS_PATTERN", "warning", source,
          <<"Suspicious pattern detected in ", field>>,
          <<Detail("field", <<field>>), Detail("pattern", <<pattern>>)>>, Absent)

\* JSON.stringify(event.details)
RECURSIVE JsonProperties(_)
JsonProperties(details) ==
    IF details = <<>> THEN <<>>
    ELSE <<details[1].key, ":">> \o details[1].value
         \o (IF Len(details) > 1 THEN <<",">> ELSE <<>>)
         \o JsonProperties(Tail(details))

JsonStringify(details) == <<"{">> \o JsonProperties(details) \o <<"}">>

\* formatLogMessage, lines 295-302
FormatLogMessage(event) ==
    (IF event.correlationId # Absent
     THEN <<"[", event.correlationId[1], "] ">> ELSE <<>>)
    \o <<"[SECURITY:", event.type, "] ">> \o event.message
    \o (IF Len(event.details) > 0 THEN <<" ">> \o JsonStringify(event.details)
        ELSE <<>>)

\* lines 256-260
FullEvent(a, event, time) ==
    [type |-> event.type, severity |-> event.severity, source |-> event.source,
     message |-> event.message, details |-> event.details,
     errorCode |-> event.errorCode, timestamp |-> time,
     correlationId |-> a.correlationId]

\* a threshold that also drops the events of the minimum severity itself
BelowOrAtThreshold(severity, minSeverity) ==
    SEVERITY_ORDER[severity] <= SEVERITY_ORDER[minSeverity]

\* line 263
BelowThreshold(severity, minSeverity) ==
    SEVERITY_ORDER[severity] < SEVERITY_ORDER[minSeverity]

\* whether logEvent gets past its two early returns, lines 254 and 263-265
Accepted(a, event) ==
    a.config.enabled /\ ~BelowThreshold(event.severity, a.config.minSeverity)

\* a full buffer that refuses the new event
PushKeepingOldest(buffer, event) ==
    IF Len(buffer) + 1 > maxBufferSize THEN buffer ELSE Append(buffer, event)

\* lines 268-271
Push(buffer, event) ==
    IF Len(buffer) + 1 > maxBufferSize THEN Tail(Append(buffer, event))
    ELSE Append(buffer, event)

\* the logger method of a severity, lines 277-288
LevelOf(severity) ==
    CASE severity = "info" -> "info"
      [] severity = "warning" -> "warn"
      [] OTHER -> "error"

\* lines 274-289: the calls made on the logger
Forwarded(a, full) ==
    IF a.logger
    THEN <<[level |-> LevelOf(full.severity), message |-> FormatLogMessage(full)]>>
    ELSE <<>>

\* logEvent, lines 253-290: the logger object afterwards and the calls on the sink
LogEvent(a, event, time) ==
    IF Accepted(a, event)
    THEN [audit |-> [a EXCEPT !.eventBuffer = Push(a.eventBuffer, FullEvent(a, event, time))],
          sink |-> Forwarded(a, FullEvent(a, event, time))]
    ELSE [audit |-> a, sink |-> <<>>]

GetBufferedEvents == audit.eventBuffer

-----------------------------------------------------------------------------
(* Inputs of the numeric specification *)

RECURSIVE SeqsUpTo(_, _)
SeqsUpTo(S, n) ==
    IF n = 0 THEN {<<>>}
    ELSE LET shorter == SeqsUpTo(S, n - 1)
         IN  shorter \cup {Append(s, c) : s \in shorter, c \in S}

FiniteNums == {Fin(h * (Scale \div 2)) : h \in -MaxHalf..MaxHalf}
Nums == FiniteNums \cup {NaN, PosInf, NegInf}

NumericAlphabet == {"1", "5", "-", ".", "x"}

NumericStrings ==
    SeqsUpTo(NumericAlphabet, MaxStrLen) \cup {NumberToString(n) : n \in Nums}

NumericInputs ==
    {NumberValue(n) : n \in Nums}
    \cup {StringValue(s) : s \in NumericStrings}
    \cup {ObjectValue}

BoundValues == {Fin(-Scale), Fin(0), Fin(Scale), Fin(2 * Scale)}

NumericBounds == [min : BoundValues, max : BoundValues, integer : Bool]

-----------------------------------------------------------------------------
(* Idle values of the components a specification does not exercise *)

IdleNumeric == numOptions = [requireBounds |-> TRUE, allowNaN |-> FALSE, allowInfinity |-> FALSE]
IdleString == strOptions = [maxLength |-> 1000, allowNullBytes |-> FALSE, allowControlChars |-> FALSE]
IdlePath ==
    pathOptions = [allowedBaseDirs |-> {}, maxPathLength |-> 1000, allowedExtensions |-> {},
                   allowHiddenFiles |-> TRUE, allowAbsolutePaths |-> TRUE]
IdleValidator ==
    /\ config = DEVELOPMENT_SECURITY_CONFIG
    /\ fields = EmptyObject
    /\ logged = [logger |-> FALSE, lines |-> <<>>]
IdleAudit ==
    /\ audit = [config |-> DEFAULT_AUDIT_CONFIG, logger |-> FALSE,
                correlationId |-> Absent, eventBuffer |-> <<>>]
    /\ sink = <<>>
    /\ now = 0
    /\ emitted = <<>>

IdleHeap ==
    /\ heap = <<>>
    /\ builder = 0
    /\ held = [ref |-> 0, from |-> "none"]

IdleManager ==
    /\ currentProfile = "development"
    /\ currentConfig = DEVELOPMENT_SECURITY_CONFIG
    /\ listeners = <<>>
    /\ unsubscribes = <<>>
    /\ dispatch = <<>>
    /\ calls = <<>>

-----------------------------------------------------------------------------
(* Specification of NumericGuard *)

NumericCalls ==
    [name : {"validate"}, value : NumericInputs, bounds : NumericBounds]

\* a guard constructed with any options, about to be called once
NumInit ==
    /\ numOptions \in NumericOptions
    /\ IdleString /\ IdlePath /\ IdleValidator /\ IdleManager /\ IdleAudit /\ IdleHeap
    /\ op \in NumericCalls
    /\ result = NoResult

NumValidate ==
    /\ op.name = "validate"
    /\ result = NoResult
    /\ result' = NumericGuardValidate(numOptions, op.value, op.bounds, "value")
    /\ UNCHANGED <<numOptions, logged, heap, builder, held, audit, sink, now, emitted, dispatch, strOptions, pathOptions, config, fields,
                   currentProfile, currentConfig, listeners, unsubscribes, calls, op>>

NumNext == NumValidate

SpecNum == NumInit /\ [][NumNext]_vars

-----------------------------------------------------------------------------
(* Specification of validateMany *)

\* the keys of the values object: the schema fields and one more
ManyKeys == {"port", "ratio", "other"}

ManyValues ==
    {UndefinedValue, NullValue, ObjectValue,
     NumberValue(Whole(1)), NumberValue(Fin(Scale \div 2)), NumberValue(Whole(3)),
     NumberValue(NaN), StringValue(<<"1">>), StringValue(<<"x">>)}

ManyValueMaps ==
    {v \in [ManyKeys -> ManyValues] : v["other"] \in {UndefinedValue, NumberValue(Whole(3))}}

ManySchemas ==
    {<<<<"port", [min |-> Whole(1), max |-> Whole(2), integer |-> TRUE, optional |-> o1]>>,
       <<"ratio", [min |-> Whole(0), max |-> Whole(1), integer |-> FALSE, optional |-> o2]>>>>
     : o1 \in Bool, o2 \in Bool}
    \cup {<<<<"ratio", [min |-> Whole(0), max |-> Whole(1), integer |-> FALSE, optional |-> FALSE]>>>>,
          <<>>}

ManyCalls == [name : {"validateMany"}, values : ManyValueMaps, schemas : ManySchemas]

ManyInit ==
    /\ numOptions \in NumericOptions
    /\ IdleString /\ IdlePath /\ IdleValidator /\ IdleManager /\ IdleAudit /\ IdleHeap
    /\ op \in ManyCalls
    /\ result = NoResult

DoValidateMany ==
    /\ op.name = "validateMany"
    /\ result = NoResult
    /\ result' = ValidateMany(numOptions, op.values, op.schemas)
    /\ UNCHANGED <<numOptions, logged, heap, builder, held, audit, sink, now, emitted, dispatch, strOptions, pathOptions, config, fields,
                   currentProfile, currentConfig, listeners, unsubscribes, calls, op>>

ManyNext == DoValidateMany

SpecMany == ManyInit /\ [][ManyNext]_vars

-----------------------------------------------------------------------------
(* Specification of validateWithDefault and parseCliArg *)

DefaultValues == {Whole(-1), Whole(0), Whole(1), Whole(3), Fin(Scale \div 2)}

DefaultBounds ==
    [min : {Whole(0)}, max : {Whole(1), Whole(2)}, integer : Bool]

CliBounds ==
    [min : {Whole(0)}, max : {Whole(1), Whole(2)}, integer : Bool,
     default : {Absent} \cup {Some(d) : d \in DefaultValues}]

DefaultCalls ==
    [name : {"validateWithDefault"},
     value : {UndefinedValue, NullValue, ObjectValue, NumberValue(Whole(1)),
              NumberValue(Whole(3)), NumberValue(NaN), StringValue(<<"1">>)},
     bounds : DefaultBounds, defaultValue : DefaultValues]
    \cup [name : {"parseCliArg"},
          value : {UndefinedValue, StringValue(<<"1">>), StringValue(<<"1", ".", "5">>),
                   StringValue(<<"5">>), StringValue(<<"x">>)},
          bounds : CliBounds]

DefaultInit ==
    /\ numOptions \in NumericOptions
    /\ IdleString /\ IdlePath /\ IdleValidator /\ IdleManager /\ IdleAudit /\ IdleHeap
    /\ op \in DefaultCalls
    /\ result = NoResult

DoValidateWithDefault ==
    /\ op.name = "validateWithDefault"
    /\ result = NoResult
    /\ result' = ValidateWithDefault(numOptions, op.value, op.bounds, op.defaultValue,
                                     "value")
    /\ UNCHANGED <<numOptions, logged, heap, builder, held, audit, sink, now, emitted, dispatch, strOptions, pathOptions, config, fields,
                   currentProfile, currentConfig, listeners, unsubscribes, calls, op>>

DoParseCliArg ==
    /\ op.name = "parseCliArg"
    /\ result = NoResult
    /\ result' = ParseCliArg(numOptions, op.value, op.bounds, "limit")
    /\ UNCHANGED <<numOptions, logged, heap, builder, held, audit, sink, now, emitted, dispatch, strOptions, pathOptions, config, fields,
                   currentProfile, currentConfig, listeners, unsubscribes, calls, op>>

DefaultNext == DoValidateWithDefault \/ DoParseCliArg

SpecDefault == DefaultInit /\ [][DefaultNext]_vars

-----------------------------------------------------------------------------
(* Specification of validateRange *)

RangeNums ==
    {Whole(-1)}
    \cup UNION {{Whole(SAFE_RANGES[r].min.v \div (IF SAFE_RANGES[r].min.k = "big" THEN 1 ELSE Scale)),
                 Whole(SAFE_RANGES[r].max.v \div (IF SAFE_RANGES[r].max.k = "big" THEN 1 ELSE Scale)),
                 Whole(SAFE_RANGES[r].max.v \div (IF SAFE_RANGES[r].max.k = "big" THEN 1 ELSE Scale) + 1)}
                : r \in DOMAIN SAFE_RANGES}
    \cup {Fin(Scale \div 2), Fin(3 * (Scale \div 2)), NaN, PosInf}

RangeInputs ==
    {NumberValue(n) : n \in RangeNums}
    \cup {StringValue(<<"1">>), StringValue(<<"1", ".", "5">>), ObjectValue}

RangeCalls ==
    [name : {"validateRange"}, value : RangeInputs, rangeName : DOMAIN SAFE_RANGES,
     fieldName : {Absent, Some("limit")}]

RangeInit ==
    /\ numOptions \in NumericOptions
    /\ IdleString /\ IdlePath /\ IdleValidator /\ IdleManager /\ IdleAudit /\ IdleHeap
    /\ op \in RangeCalls
    /\ result = NoResult

DoValidateRange ==
    /\ op.name = "validateRange"
    /\ result = NoResult
    /\ result' = ValidateRange(numOptions, op.value, op.rangeName, op.fieldName)
    /\ UNCHANGED <<numOptions, logged, heap, builder, held, audit, sink, now, emitted, dispatch, strOptions, pathOptions, config, fields,
                   currentProfile, currentConfig, listeners, unsubscribes, calls, op>>

RangeNext == DoValidateRange

SpecRange == RangeInit /\ [][RangeNext]_vars

-----------------------------------------------------------------------------
(* Specification of StringGuard *)

TextAlphabet == {"NUL", "BEL", "TAB", "VT", "ESC", "[", ";", "a"}

Texts == SeqsUpTo(TextAlphabet, MaxTextLen)

StringInputs == {StringValue(s) : s \in Texts} \cup {ObjectValue}

StringOptions ==
    [maxLength : {1000}, allowNullBytes : Bool, allowControlChars : Bool]

StringConstraints ==
    [minLength : {Absent, Some(2)}, maxLength : {Absent, Some(1)},
     pattern : {Absent, Some("letters")}, allowedValues : {Absent, Some({<<"a">>})},
     blockShellMeta : Bool, trim : Bool]

StringCalls ==
    [name : {"validateString"}, value : StringInputs, constraints : StringConstraints]

StrInit ==
    /\ strOptions \in StringOptions
    /\ IdleNumeric /\ IdlePath /\ IdleValidator /\ IdleManager /\ IdleAudit /\ IdleHeap
    /\ op \in StringCalls
    /\ result = NoResult

StrValidate ==
    /\ op.name = "validateString"
    /\ result = NoResult
    /\ result' = StringGuardValidate(strOptions, op.value, op.constraints, "value")
    /\ UNCHANGED <<numOptions, logged, heap, builder, held, audit, sink, now, emitted, dispatch, strOptions, pathOptions, config, fields,
                   currentProfile, currentConfig, listeners, unsubscribes, calls, op>>

StrNext == StrValidate

SpecStr == StrInit /\ [][StrNext]_vars

-----------------------------------------------------------------------------
(* Specification of StringGuard.sanitize *)

SanitizeAlphabet == {"NUL", "TAB", "ESC", "DEL", "[", "3", "m"}

SanitizeTexts == SeqsUpTo(SanitizeAlphabet, MaxTextLen + 2)

\* the maxLength argument; Absent stands for the default of 100
SanitizeLengths ==
    {Absent, Some(Whole(0)), Some(Whole(1)), Some(Whole(3)), Some(Whole(-1)),
     Some(Fin(3 * (Scale \div 2))), Some(NaN), Some(PosInf)}

SanitizeCalls == [name : {"sanitize"}, value : SanitizeTexts, maxLength : SanitizeLengths]

SanitizeInit ==
    /\ strOptions \in StringOptions
    /\ IdleNumeric /\ IdlePath /\ IdleValidator /\ IdleManager /\ IdleAudit /\ IdleHeap
    /\ op \in SanitizeCalls
    /\ result = NoResult

DoSanitize ==
    /\ op.name = "sanitize"
    /\ result = NoResult
    /\ result' = Return(StringValue(Sanitize(op.value,
                                             IF op.maxLength = Absent THEN Whole(100)
                                             ELSE op.maxLength[1])))
    /\ UNCHANGED <<numOptions, logged, heap, builder, held, audit, sink, now, emitted, dispatch, strOptions, pathOptions, config, fields,
                   currentProfile, currentConfig, listeners, unsubscribes, calls, op>>

SanitizeNext == DoSanitize

SpecSanitize == SanitizeInit /\ [][SanitizeNext]_vars

-----------------------------------------------------------------------------
(* Specification of StringGuard.detectInjection *)

InjectionAlphabet == {"ESC", "[", "m", "'", "-", "$", "o", "O", "r", " "}

InjectionCalls(texts) == [name : {"detectInjection"}, value : texts]

InjectionInit ==
    /\ strOptions \in StringOptions
    /\ IdleNumeric /\ IdlePath /\ IdleValidator /\ IdleManager /\ IdleAudit /\ IdleHeap
    /\ op \in InjectionCalls(SeqsUpTo(InjectionAlphabet, MaxTextLen + 1))
    /\ result = NoResult

DoDetectInjection ==
    /\ op.name = "detectInjection"
    /\ result = NoResult
    /\ result' = Return(DetectInjection(op.value))
    /\ UNCHANGED <<numOptions, logged, heap, builder, held, audit, sink, now, emitted, dispatch, strOptions, pathOptions, config, fields,
                   currentProfile, currentConfig, listeners, unsubscribes, calls, op>>

InjectionNext == DoDetectInjection

SpecInjection == InjectionInit /\ [][InjectionNext]_vars

-----------------------------------------------------------------------------
(* Specification of PathGuard *)

PathTokens ==
    {<<".">>, <<"/">>, <<"\\">>, <<"a">>, <<"%", "2", "e">>,
     <<"%", "2", "5", "2", "e">>, <<"%", "2", "f">>}

RECURSIVE PathsUpTo(_)
PathsUpTo(n) ==
    IF n = 0 THEN {<<>>}
    ELSE LET shorter == PathsUpTo(n - 1)
         IN  shorter \cup {s \o t : s \in shorter, t \in PathTokens}

Paths == PathsUpTo(MaxPathTokens)

PathOptions ==
    [allowedBaseDirs : {{}, {<<"/", "a">>}}, maxPathLength : {4, 1000},
     allowedExtensions : {{}, {<<".", "a">>}},
     allowHiddenFiles : Bool, allowAbsolutePaths : Bool]

PathCalls == [name : {"validatePath"}, path : Paths]

PathInit ==
    /\ pathOptions \in PathOptions
    /\ IdleNumeric /\ IdleString /\ IdleValidator /\ IdleManager /\ IdleAudit /\ IdleHeap
    /\ op \in PathCalls
    /\ result = NoResult

PathValidate ==
    /\ op.name = "validatePath"
    /\ result = NoResult
    /\ result' = PathGuardValidate(pathOptions, op.path, "path")
    /\ UNCHANGED <<numOptions, logged, heap, builder, held, audit, sink, now, emitted, dispatch, strOptions, pathOptions, config, fields,
                   currentProfile, currentConfig, listeners, unsubscribes, calls, op>>

PathNext == PathValidate

SpecPath == PathInit /\ [][PathNext]_vars

-----------------------------------------------------------------------------
(* Specification of SecurityValidator *)

OkPath == <<"e", "t", "c">>
TraversalPath == <<".", ".", "/", ".", ".", "/", ".", ".", "/", "e", "t", "c">>
HiddenPath == <<".", "e", "t", "c">>
HomePath == <<"~", "/", "e", "t", "c">>

\* the configurations a validator is constructed with
UserConfigs ==
    {EmptyObject,
     [failOnError |-> TRUE],
     [profile |-> "production"],
     [profile |-> "production", failOnError |-> FALSE],
     [profile |-> "custom", failOnError |-> TRUE],
     [paths |-> [allowHiddenFiles |-> FALSE]],
     DEVELOPMENT_SECURITY_CONFIG,
     PRODUCTION_SECURITY_CONFIG}

ValidatorConfigs ==
    {NewSecurityValidator(u) : u \in UserConfigs}
    \cup {CreateSecurityValidatorForProfile(p) : p \in {"development", "production"}}

\* z.object({configDirectory: z.string(), timeout: z.number().min(0).max(2),
\*           model: z.string()}) and the schemas with fewer of these fields
FullSchema ==
    [configDirectory |-> [kind |-> "string", bounds |-> Absent],
     timeout |-> [kind |-> "number",
                  bounds |-> Some([min |-> Fin(0), max |-> Fin(2 * Scale),
                                   integer |-> FALSE])],
     model |-> [kind |-> "string", bounds |-> Absent]]

Schemas == {[name \in D |-> FullSchema[name]] : D \in (SUBSET FieldNames) \ {{}}}

\* the properties of f whose value is not undefined
DefinedOnly(f) ==
    [k \in {n \in DOMAIN f : f[n].type # "undefined"} |-> f[k]]

ArgMaps ==
    {DefinedOnly(f) :
        f \in [configDirectory : {UndefinedValue, StringValue(OkPath),
                                  StringValue(TraversalPath), StringValue(HiddenPath),
                                  StringValue(HomePath)},
               timeout : {UndefinedValue, NumberValue(Fin(0)), NumberValue(Fin(3 * Scale))},
               model : {UndefinedValue, StringValue(<<"a">>)}]}

MergedCalls ==
    {[name |-> "validateMerged", merged |-> Spread(c, a), cliArgs |-> a,
      configValues |-> c] : a \in ArgMaps, c \in ArgMaps}

SVInit ==
    /\ config \in ValidatorConfigs
    /\ fields = EmptyObject
    /\ logged = [logger |-> TRUE, lines |-> <<>>]
    /\ IdleNumeric /\ IdleString /\ IdlePath /\ IdleManager /\ IdleAudit /\ IdleHeap
    /\ op \in MergedCalls
    /\ result = NoResult

\* registerSchema, lines 62-67
RegisterSchema ==
    \E schema \in Schemas :
        /\ result = NoResult
        /\ fields' = RegisterFromSchema(fields, schema)
        /\ UNCHANGED <<numOptions, logged, heap, builder, held, audit, sink, now, emitted, dispatch, strOptions, pathOptions, config,
                       currentProfile, currentConfig, listeners, unsubscribes, calls, op, result>>

\* validateMerged, lines 114-150
DoValidateMerged ==
    /\ op.name = "validateMerged"
    /\ result = NoResult
    /\ LET aggregated == ValidateMerged(config, fields, op.merged, op.cliArgs,
                                        op.configValues)
       IN  /\ result' = Return(aggregated)
           /\ logged' = LogAggregatedResult(config, logged, aggregated)
    /\ UNCHANGED <<numOptions, heap, builder, held, audit, sink, now, emitted, dispatch, strOptions, pathOptions, config, fields,
                   currentProfile, currentConfig, listeners, unsubscribes, calls, op>>

SVNext == RegisterSchema \/ DoValidateMerged

SpecSV == SVInit /\ [][SVNext]_vars

-----------------------------------------------------------------------------
(* SecurityValidator.validateValue *)

\* a call that returns nothing or throws: the outcome of a guard without its value
Void(outcome) ==
    IF outcome.kind = "throw" THEN outcome ELSE Return(UndefinedValue)

\* validateValue(value, type, options), lines 155-181
ValidateValue(cfg, value, type, options) ==
    LET fieldName == IF options.fieldName = Absent THEN "value" ELSE options.fieldName[1]
    IN  CASE type = "path" ->
               IF value.type = "string"
               THEN Void(PathGuardValidate(NewPathGuard(cfg.paths), value.str, fieldName))
               ELSE Return(UndefinedValue)
          [] type = "number" ->
               IF options.bounds # Absent
               THEN Void(NumericGuardValidate(NewNumericGuard(cfg.numbers), value,
                                              options.bounds[1], fieldName))
               ELSE Return(UndefinedValue)
          [] type = "string" ->
               Void(StringGuardValidate(NewStringGuard(cfg.strings), value,
                                        [NoConstraints EXCEPT !.pattern = options.pattern],
                                        fieldName))

ValueInputs ==
    {StringValue(OkPath), StringValue(TraversalPath), StringValue(<<"a">>),
     StringValue(<<"1">>), NumberValue(Whole(1)), NumberValue(Whole(3)), NumberValue(NaN),
     ObjectValue, UndefinedValue, NullValue}

ValueOptions ==
    [fieldName : {Absent, Some("limit")},
     bounds : {Absent, Some([min |-> Whole(0), max |-> Whole(2), integer |-> FALSE])},
     pattern : {Absent, Some("letters")}]

ValueCalls ==
    [name : {"validateValue"}, value : ValueInputs, type : {"path", "number", "string"},
     options : ValueOptions]

ValueInit ==
    /\ config \in ValidatorConfigs
    /\ fields = EmptyObject
    /\ logged = [logger |-> TRUE, lines |-> <<>>]
    /\ IdleNumeric /\ IdleString /\ IdlePath /\ IdleManager /\ IdleAudit /\ IdleHeap
    /\ op \in ValueCalls
    /\ result = NoResult

DoValidateValue ==
    /\ op.name = "validateValue"
    /\ result = NoResult
    /\ result' = ValidateValue(config, op.value, op.type, op.options)
    /\ UNCHANGED <<numOptions, logged, heap, builder, held, audit, sink, now, emitted, dispatch, strOptions, pathOptions, config, fields,
                   currentProfile, currentConfig, listeners, unsubscribes, calls, op>>

ValueNext == DoValidateValue

SpecValue == ValueInit /\ [][ValueNext]_vars

-----------------------------------------------------------------------------
(* Specification of the validator's logging: validateCLI, validateConfig,
   validateMerged and validateValue on one validator, next to the global
   SecurityAuditLogger *)

TrailConfigs ==
    {NewSecurityValidator(u) :
        u \in {EmptyObject, [auditLogging |-> FALSE], [profile |-> "production"],
               [failOnError |-> TRUE]}}

TrailValueCalls ==
    [name : {"validateValue"},
     value : {NumberValue(Whole(1)), NumberValue(Whole(3)), ObjectValue},
     type : {"number", "string"},
     options : [fieldName : {Absent},
                bounds : {Some([min |-> Whole(0), max |-> Whole(2), integer |-> FALSE])},
                pattern : {Absent}]]

TrailCalls ==
    [name : {"validateCLI", "validateConfig"}, args : ArgMaps]
    \cup {c \in MergedCalls : c.cliArgs = c.configValues}
    \cup TrailValueCalls

TrailInit ==
    /\ config \in TrailConfigs
    /\ fields = EmptyObject
    /\ logged \in [logger : Bool, lines : {<<>>}]
    /\ IdleNumeric /\ IdleString /\ IdlePath /\ IdleManager /\ IdleAudit /\ IdleHeap
    /\ op \in TrailCalls
    /\ result = NoResult

\* validateCLI, lines 79-83
DoValidateCLI ==
    /\ op.name = "validateCLI"
    /\ result = NoResult
    /\ LET res == ValidatorResult(config, fields, op.args, "cli")
       IN  /\ result' = Return(res)
           /\ logged' = LogResult(config, logged, "CLI", res)
    /\ UNCHANGED <<numOptions, heap, builder, held, audit, sink, now, emitted, dispatch, strOptions, pathOptions, config, fields,
                   currentProfile, currentConfig, listeners, unsubscribes, calls, op>>

\* validateConfig, lines 88-95
DoValidateConfig ==
    /\ op.name = "validateConfig"
    /\ result = NoResult
    /\ LET res == ValidatorResult(config, fields, op.args, "config")
       IN  /\ result' = Return(res)
           /\ logged' = LogResult(config, logged, "config", res)
    /\ UNCHANGED <<numOptions, heap, builder, held, audit, sink, now, emitted, dispatch, strOptions, pathOptions, config, fields,
                   currentProfile, currentConfig, listeners, unsubscribes, calls, op>>

TrailNext ==
    \/ RegisterSchema
    \/ DoValidateCLI
    \/ DoValidateConfig
    \/ DoValidateMerged
    \/ DoValidateValue

SpecTrail == TrailInit /\ [][TrailNext]_vars

-----------------------------------------------------------------------------
(* detectConfigFormat: format-detector.ts *)

\* lowest priority first
FORMAT_PRIORITY == <<"yaml", "json", "javascript", "typescript">>

FORMAT_EXTENSIONS ==
    [yaml |-> <<".yaml", ".yml">>,
     json |-> <<".json">>,
     javascript |-> <<".mjs", ".js", ".cjs">>,
     typescript |-> <<".mts", ".ts", ".cts">>]

\* parsers/index.ts: the extensions of the parsers registered when the module loads
parserRegistry ==
    {".yaml", ".yml", ".json", ".mjs", ".js", ".cjs", ".mts", ".ts", ".cts"}

\* [...a].reverse()
Reverse(a) == [i \in 1..Len(a) |-> a[Len(a) + 1 - i]]

\* await storage.exists(filePath) && await storage.isFileReadable(filePath)
Usable(storage, ext) == ext \in storage.exists /\ ext \in storage.readable

\* the loop over the extensions of a format: the first usable one from i on
RECURSIVE FirstUsable(_, _, _)
FirstUsable(storage, extensions, i) ==
    IF i > Len(extensions) THEN Absent
    ELSE IF Usable(storage, extensions[i]) THEN Some(extensions[i])
    ELSE FirstUsable(storage, extensions, i + 1)

Detected(format, ext, wasOverridden) ==
    [type |-> "detected", format |-> format, filePath |-> ext,
     wasOverridden |-> wasOverridden]

\* lines 99-129: the loop over the formats to check, from the i-th on
RECURSIVE DetectFrom(_, _, _)
DetectFrom(storage, formatsToCheck, i) ==
    IF i > Len(formatsToCheck) THEN NullValue
    ELSE LET format == formatsToCheck[i]
             extensions == FORMAT_EXTENSIONS[format]
             hasParser == \E j \in 1..Len(extensions) : extensions[j] \in parserRegistry
             found == FirstUsable(storage, extensions, 1)
         IN  IF ~hasParser THEN DetectFrom(storage, formatsToCheck, i + 1)
             ELSE IF found # Absent THEN Detected(format, found[1], FALSE)
             ELSE DetectFrom(storage, formatsToCheck, i + 1)

\* detectConfigFormat checking the formats from the lowest priority up
DetectLowestFirst(storage, formatOverride) ==
    IF formatOverride # Absent
    THEN LET found == FirstUsable(storage, FORMAT_EXTENSIONS[formatOverride[1]], 1)
         IN  IF found # Absent THEN Detected(formatOverride[1], found[1], TRUE)
             ELSE NullValue
    ELSE DetectFrom(storage, FORMAT_PRIORITY, 1)
\* detectConfigFormat(options), lines 71-132
DetectConfigFormat(storage, formatOverride) ==
    IF formatOverride # Absent
    THEN LET found == FirstUsable(storage, FORMAT_EXTENSIONS[formatOverride[1]], 1)
         IN  IF found # Absent THEN Detected(formatOverride[1], found[1], TRUE)
             ELSE NullValue
    ELSE DetectFrom(storage, Reverse(FORMAT_PRIORITY), 1)

-----------------------------------------------------------------------------
(* Specification of detectConfigFormat *)

\* what the storage answers: the files that exist, and those of them that can be read
Storages(files) ==
    UNION {{[exists |-> e, readable |-> r] : r \in SUBSET e} : e \in SUBSET files}

DetectCalls(storages) ==
    {[name |-> "detectConfigFormat", storage |-> st, formatOverride |-> f] :
        st \in storages,
        f \in {Absent} \cup {Some(FORMAT_PRIORITY[i]) : i \in 1..Len(FORMAT_PRIORITY)}}

DetectInit ==
    /\ IdleNumeric /\ IdleString /\ IdlePath /\ IdleValidator /\ IdleManager
    /\ IdleAudit /\ IdleHeap
    /\ op \in DetectCalls(Storages(parserRegistry))
    /\ result = NoResult

DoDetectConfigFormat ==
    /\ op.name = "detectConfigFormat"
    /\ result = NoResult
    /\ result' = Return(DetectConfigFormat(op.storage, op.formatOverride))
    /\ UNCHANGED <<numOptions, logged, heap, builder, held, audit, sink, now, emitted, dispatch, strOptions, pathOptions, config, fields,
                   currentProfile, currentConfig, listeners, unsubscribes, calls, op>>

DetectNext == DoDetectConfigFormat

SpecDetect == DetectInit /\ [][DetectNext]_vars

-----------------------------------------------------------------------------
(* Specification of validateMerged on nested configurations *)

\* values with their properties: objects and arrays hold <<key, value>> pairs
Node(type, str, kids) == [type |-> type, num |-> NaN, str |-> str, kids |-> kids]

LeafNodes ==
    {Node("string", <<"a">>, <<>>), Node("string", <<"~", "/", "a">>, <<>>),
     Node("string", <<"$", "a">>, <<>>), Node("null", <<>>, <<>>)}

\* { home: v } and [v]
Wrapped(nodes) ==
    {Node("object", <<>>, <<<<"home", v>>>>) : v \in nodes}
    \cup {Node("array", <<>>, <<<<"0", v>>>>) : v \in nodes}

Trees == LeafNodes \cup Wrapped(LeafNodes) \cup Wrapped(Wrapped(LeafNodes))

WalkCalls ==
    {[name |-> "validateMerged", merged |-> [model |-> t], cliArgs |-> EmptyObject,
      configValues |-> [model |-> t]] : t \in Trees}

WalkInit ==
    /\ config \in {CreateSecurityValidatorForProfile(p) : p \in {"development", "production"}}
    /\ fields = EmptyObject
    /\ logged = [logger |-> TRUE, lines |-> <<>>]
    /\ IdleNumeric /\ IdleString /\ IdlePath /\ IdleManager /\ IdleAudit /\ IdleHeap
    /\ op \in WalkCalls
    /\ result = NoResult

SpecWalk == WalkInit /\ [][SVNext]_vars

-----------------------------------------------------------------------------
(* Specification of ProfileManager *)

ListenerIds == {"l1", "l2"}

CustomConfigs ==
    {PRODUCTION_SECURITY_CONFIG,
     [DEVELOPMENT_SECURITY_CONFIG EXCEPT !.profile = "custom", !.failOnError = TRUE]}

\* constructor, lines 213-216
PMInit ==
    /\ currentProfile \in Profiles \cup DetectedProfiles
    /\ currentConfig = GetProfileConfig(currentProfile)
    /\ listeners = <<>>
    /\ unsubscribes = <<>>
    /\ dispatch = <<>>
    /\ calls = <<>>
    /\ IdleNumeric /\ IdleString /\ IdlePath /\ IdleValidator /\ IdleAudit /\ IdleHeap
    /\ op = NoOp
    /\ result = NoResult

\* onProfileChange, lines 253-259; the returned function is kept in unsubscribes
OnProfileChange ==
    \E l \in ListenerIds :
        /\ Len(unsubscribes) < MaxSubscriptions
        /\ listeners' = Append(listeners, l)
        /\ unsubscribes' = Append(unsubscribes, [listener |-> l, called |-> FALSE])
        /\ calls' = <<>>
        /\ op' = [name |-> "onProfileChange", listener |-> l]
        /\ UNCHANGED <<numOptions, logged, heap, builder, held, audit, sink, now, emitted, dispatch, strOptions, pathOptions, config, fields,
                       currentProfile, currentConfig, result>>

\* a call of a function onProfileChange returned, lines 255-258
Unsubscribe ==
    \E r \in 1..Len(unsubscribes) :
        /\ listeners' = Unsubscribed(listeners, unsubscribes[r].listener)
        /\ unsubscribes' = [unsubscribes EXCEPT ![r].called = TRUE]
        /\ calls' = <<>>
        /\ op' = [name |-> "unsubscribe", index |-> r]
        /\ UNCHANGED <<numOptions, logged, heap, builder, held, audit, sink, now, emitted, dispatch, strOptions, pathOptions, config, fields,
                       currentProfile, currentConfig, result>>

\* switchProfile, lines 235-239
SwitchProfile ==
    \E profile \in Profiles :
        /\ currentProfile' = profile
        /\ currentConfig' = GetProfileConfig(profile)
        /\ calls' = NotifyListeners(listeners, currentProfile', currentConfig')
        /\ op' = [name |-> "switchProfile", profile |-> profile]
        /\ UNCHANGED <<numOptions, logged, heap, builder, held, audit, sink, now, emitted, dispatch, strOptions, pathOptions, config, fields,
                       listeners, unsubscribes, result>>

\* applyCustomConfig, lines 244-248
ApplyCustomConfig ==
    \E cfg \in CustomConfigs :
        /\ currentProfile' = "custom"
        /\ currentConfig' = cfg
        /\ calls' = NotifyListeners(listeners, currentProfile', currentConfig')
        /\ op' = [name |-> "applyCustomConfig", config |-> cfg]
        /\ UNCHANGED <<numOptions, logged, heap, builder, held, audit, sink, now, emitted, dispatch, strOptions, pathOptions, config, fields,
                       listeners, unsubscribes, result>>

PMNext == OnProfileChange \/ Unsubscribe \/ SwitchProfile \/ ApplyCustomConfig

SpecPM == PMInit /\ [][PMNext]_vars

-----------------------------------------------------------------------------
(* Specification of ProfileManager with listeners that call back into it *)

\* l1 only observes; r1 switches to production when told of another profile;
\* r2 applies a custom configuration when told of development; u1 calls the
\* unsubscribe function it was given; u2 calls the one given for l1
ReentrantIds == {"l1", "r1", "r2", "u1", "u2"}

\* the call a listener makes on the manager while it is being notified
Reaction(l, profile) ==
    IF l = "r1" /\ profile # "production"
    THEN [name |-> "switchProfile", profile |-> "production"]
    ELSE IF l = "r2" /\ profile = "development"
    THEN [name |-> "applyCustomConfig",
          config |-> [DEVELOPMENT_SECURITY_CONFIG EXCEPT !.profile = "custom"]]
    ELSE IF l = "u1" THEN [name |-> "unsubscribe", listener |-> "u1"]
    ELSE IF l = "u2" THEN [name |-> "unsubscribe", listener |-> "l1"]
    ELSE NoOp

\* the unsubscribe functions kept, with the first one given for l marked as called
CalledFor(us, l) ==
    IF \E r \in 1..Len(us) : us[r].listener = l
    THEN LET first == CHOOSE r \in 1..Len(us) :
                          us[r].listener = l /\ \A q \in 1..(r - 1) : us[q].listener # l
         IN  [us EXCEPT ![first].called = TRUE]
    ELSE us

\* one notifyListeners loop: the index the array iterator visits next
Frame(next) == [next |-> next]

Top == dispatch[Len(dispatch)]

Advanced == [dispatch EXCEPT ![Len(dispatch)] = Frame(Top.next + 1)]

\* onProfileChange called between profile changes
ReOnProfileChange ==
    \E l \in ReentrantIds :
        /\ dispatch = <<>>
        /\ Len(unsubscribes) < MaxSubscriptions
        /\ listeners' = Append(listeners, l)
        /\ unsubscribes' = Append(unsubscribes, [listener |-> l, called |-> FALSE])
        /\ calls' = <<>>
        /\ op' = [name |-> "onProfileChange", listener |-> l]
        /\ UNCHANGED <<numOptions, logged, heap, builder, held, audit, sink, now, emitted, dispatch, strOptions, pathOptions, config, fields,
                       currentProfile, currentConfig, result>>

\* switchProfile called from outside, up to the start of notifyListeners
ReSwitchProfile ==
    \E profile \in Profiles :
        /\ dispatch = <<>>
        /\ currentProfile' = profile
        /\ currentConfig' = GetProfileConfig(profile)
        /\ dispatch' = <<Frame(1)>>
        /\ calls' = <<>>
        /\ op' = [name |-> "switchProfile", profile |-> profile]
        /\ UNCHANGED <<numOptions, logged, heap, builder, held, audit, sink, now, emitted, strOptions, pathOptions, config, fields,
                       listeners, unsubscribes, result>>

\* applyCustomConfig called from outside, up to the start of notifyListeners
ReApplyCustomConfig ==
    \E cfg \in CustomConfigs :
        /\ dispatch = <<>>
        /\ currentProfile' = "custom"
        /\ currentConfig' = cfg
        /\ dispatch' = <<Frame(1)>>
        /\ calls' = <<>>
        /\ op' = [name |-> "applyCustomConfig", config |-> cfg]
        /\ UNCHANGED <<numOptions, logged, heap, builder, held, audit, sink, now, emitted, strOptions, pathOptions, config, fields,
                       listeners, unsubscribes, result>>

\* one turn of the loop of notifyListeners, lines 262-264: the listener is
\* called with the current pair, and what it calls on the manager runs
\* before the loop goes on
NotifyOne ==
    /\ dispatch # <<>>
    /\ Top.next <= Len(listeners)
    /\ LET l == listeners[Top.next]
           call == Reaction(l, currentProfile)
       IN  /\ calls' = Append(calls, [listener |-> l, profile |-> currentProfile,
                                      config |-> currentConfig])
           /\ IF call.name = "switchProfile"
              THEN /\ currentProfile' = call.profile
                   /\ currentConfig' = GetProfileConfig(call.profile)
                   /\ dispatch' = Append(Advanced, Frame(1))
                   /\ UNCHANGED <<listeners, unsubscribes>>
              ELSE IF call.name = "applyCustomConfig"
              THEN /\ currentProfile' = "custom"
                   /\ currentConfig' = call.config
                   /\ dispatch' = Append(Advanced, Frame(1))
                   /\ UNCHANGED <<listeners, unsubscribes>>
              ELSE IF call.name = "unsubscribe"
              THEN /\ listeners' = Unsubscribed(listeners, call.listener)
                   /\ unsubscribes' = CalledFor(unsubscribes, call.listener)
                   /\ dispatch' = Advanced
                   /\ UNCHANGED <<currentProfile, currentConfig>>
              ELSE /\ dispatch' = Advanced
                   /\ UNCHANGED <<currentProfile, currentConfig, listeners, unsubscribes>>
    /\ UNCHANGED <<numOptions, logged, heap, builder, held, audit, sink, now, emitted, strOptions, pathOptions, config, fields,
                   op, result>>

\* the loop of notifyListeners ends and the call that ran it returns
NotifyReturn ==
    /\ dispatch # <<>>
    /\ Top.next > Len(listeners)
    /\ dispatch' = SubSeq(dispatch, 1, Len(dispatch) - 1)
    /\ UNCHANGED <<numOptions, logged, heap, builder, held, audit, sink, now, emitted, strOptions, pathOptions, config, fields,
                   currentProfile, currentConfig, listeners, unsubscribes, calls,
                   op, result>>

ReNext ==
    ReOnProfileChange \/ ReSwitchProfile \/ ReApplyCustomConfig \/ NotifyOne
    \/ NotifyReturn

SpecRe == PMInit /\ [][ReNext]_vars

-----------------------------------------------------------------------------
(* Specification of SecurityAuditLogger *)
(* The first MaxFreeCalls logging calls are any method with any argument; *)
(* the calls after them go round the methods with fixed arguments, so that *)
(* the buffer can be filled past its capacity. *)

AuditMethods ==
    <<"validationStarted", "validationPassed", "validationFailed", "pathBlocked",
      "numericRejected", "stringRejected", "profileChanged", "configLoaded",
      "suspiciousPattern">>

CallAllowed(method) ==
    \/ now < MaxFreeCalls
    \/ /\ now < MaxAuditCalls
       /\ AuditMethods[(now % Len(AuditMethods)) + 1] = method

Pick(S) == IF now < MaxFreeCalls THEN S ELSE {CHOOSE x \in S : TRUE}

AuditUserConfigs ==
    {EmptyObject, [enabled |-> FALSE], [includeSensitiveDetails |-> TRUE]}
    \cup {[minSeverity |-> s] : s \in Severities}

Sources == {"cli", "config"}

LongPath == [i \in 1..101 |-> "a"]

LoggedPaths == {<<"/", "h", "/", "a">>, <<"/", "e", "t", "c">>, LongPath}

RejectedValues == {Fin(0), Fin(-15 * (Scale \div 10)), NaN}

SomeErrors ==
    {<<Error("timeout", "NUMBER_OUT_OF_RANGE", "max")>>,
     <<Error("model", "STRING_NULL_BYTE", "null"),
       Error("configDirectory", "PATH_TRAVERSAL", "traversal")>>}

AuditInit ==
    /\ audit \in {NewAuditLogger(TRUE, u) : u \in AuditUserConfigs}
                \cup {NewAuditLogger(FALSE, EmptyObject)}
    /\ sink = <<>>
    /\ now = 0
    /\ emitted = <<>>
    /\ IdleNumeric /\ IdleString /\ IdlePath /\ IdleValidator /\ IdleManager /\ IdleHeap
    /\ op = NoOp
    /\ result = NoResult

\* a public logging method: it builds the event and hands it to logEvent
Log(call, event) ==
    /\ CallAllowed(call.name)
    /\ audit' = LogEvent(audit, event, now).audit
    /\ sink' = LogEvent(audit, event, now).sink
    /\ emitted' = IF Accepted(audit, event)
                  THEN Append(emitted, FullEvent(audit, event, now)) ELSE emitted
    /\ now' = now + 1
    /\ op' = [name |-> call.name, args |-> call, event |-> event]
    /\ UNCHANGED <<numOptions, logged, heap, builder, held, dispatch, strOptions, pathOptions, config, fields,
                   currentProfile, currentConfig, listeners, unsubscribes, calls,
                   result>>

LogValidationStarted ==
    \E source \in Pick(Sources) :
        Log([name |-> "validationStarted", source |-> source],
            ValidationStarted(source, 3))

LogValidationPassed ==
    \E warningCount \in Pick({0, 2}) :
        Log([name |-> "validationPassed", source |-> "cli"],
            ValidationPassed("cli", warningCount))

LogValidationFailed ==
    \E errors \in Pick(SomeErrors) :
        Log([name |-> "validationFailed", source |-> "config"],
            ValidationFailed("config", errors))

LogPathBlocked ==
    \E path \in Pick(LoggedPaths) :
        Log([name |-> "pathBlocked", source |-> "cli"],
            PathBlocked(audit.config, path, "traversal", "cli", Some("PATH_TRAVERSAL")))

LogNumericRejected ==
    \E value \in RejectedValues, field \in {"timeout"} :
        Log([name |-> "numericRejected", field |-> field, value |-> value,
             reason |-> "out of range", source |-> "cli"],
            NumericRejected(field, value, "out of range", "cli"))

LogStringRejected ==
    \E errorCode \in Pick({Absent, Some("STRING_NULL_BYTE")}) :
        Log([name |-> "stringRejected", field |-> "model", reason |-> "null byte",
             source |-> "config", errorCode |-> errorCode],
            StringRejected("model", "null byte", "config", errorCode))

LogProfileChanged ==
    \E newProfile \in {"production"} :
        Log([name |-> "profileChanged"], ProfileChanged("development", newProfile))

LogConfigLoaded ==
    \E filePath \in Pick({<<"/", "h", "/", "a">>}) :
        Log([name |-> "configLoaded"], ConfigLoaded(audit.config, filePath, 3))

LogSuspiciousPattern ==
    \E pattern \in {"~"} :
        Log([name |-> "suspiciousPattern", source |-> "config"],
            SuspiciousPattern("configDirectory", pattern, "config"))

\* setCorrelationId, lines 90-93
SetCorrelationId ==
    /\ now < MaxFreeCalls
    /\ audit.correlationId = Absent
    /\ audit' = [audit EXCEPT !.correlationId = Some("c1")]
    /\ op' = [name |-> "setCorrelationId"]
    /\ UNCHANGED <<numOptions, logged, heap, builder, held, emitted, now, sink, dispatch, strOptions, pathOptions,
                   config, fields, currentProfile, currentConfig, listeners,
                   unsubscribes, calls, result>>

\* clearBuffer, lines 246-248
ClearBuffer ==
    /\ audit' = [audit EXCEPT !.eventBuffer = <<>>]
    /\ emitted' = <<>>
    /\ sink' = <<>>
    /\ op' = [name |-> "clearBuffer"]
    /\ UNCHANGED <<numOptions, logged, heap, builder, held, now, dispatch, strOptions, pathOptions, config, fields,
                   currentProfile, currentConfig, listeners, unsubscribes, calls,
                   result>>

AuditNext ==
    \/ LogValidationStarted \/ LogValidationPassed \/ LogValidationFailed
    \/ LogPathBlocked \/ LogNumericRejected \/ LogStringRejected
    \/ LogProfileChanged \/ LogConfigLoaded \/ LogSuspiciousPattern
    \/ SetCorrelationId \/ ClearBuffer

SpecAudit == AuditInit /\ [][AuditNext]_vars

-----------------------------------------------------------------------------
(* Specification of mergeSecurityConfig *)

\* the object with the properties of f that are given, f mapping each name
\* to Absent or Some(value)
GivenOnly(f) == [k \in {n \in DOMAIN f : f[n] # Absent} |-> f[k][1]]

PathOverrides ==
    {EmptyObject, [allowHiddenFiles |-> TRUE], [maxPathLength |-> 200],
     [allowedBaseDirs |-> {<<"/", "a">>}, maxPathLength |-> 300]}

NumberOverrides ==
    {EmptyObject, [requireBounds |-> TRUE], [allowNaN |-> TRUE]}

StringOverrides == {EmptyObject, [maxLength |-> 2000]}

Overrides ==
    {GivenOnly(f) :
        f \in [failOnError : {Absent, Some(TRUE), Some(FALSE)},
               paths : {Absent} \cup {Some(x) : x \in PathOverrides},
               numbers : {Absent} \cup {Some(x) : x \in NumberOverrides},
               strings : {Absent} \cup {Some(x) : x \in StringOverrides}]}

MergeCalls ==
    {[name |-> "mergeSecurityConfig", userConfig |-> u, profile |-> p] :
        u \in Overrides, p \in {"development", "production"}}

MergeInit ==
    /\ op \in MergeCalls
    /\ result = NoResult
    /\ IdleNumeric /\ IdleString /\ IdlePath /\ IdleValidator /\ IdleManager
    /\ IdleAudit /\ IdleHeap

\* mergeSecurityConfig, lines 69-81
DoMerge ==
    /\ op.name = "mergeSecurityConfig"
    /\ result = NoResult
    /\ result' = Return(MergeSecurityConfig(op.userConfig, op.profile))
    /\ UNCHANGED <<numOptions, logged, heap, builder, held, emitted, now, sink, audit, dispatch, strOptions,
                   pathOptions, config, fields, currentProfile, currentConfig,
                   listeners, unsubscribes, calls, op>>

MergeNext == DoMerge

SpecMerge == MergeInit /\ [][MergeNext]_vars

-----------------------------------------------------------------------------
(* Specification of the configuration objects: profiles.ts *)
(* A configuration object holds references to its three policy objects, so *)
(* that a copy made by spreading shares them with the original. *)

\* SECURITY_PROFILES as references: custom is the development object
PresetRef(profile) == IF profile = "production" THEN 5 ELSE 1

WithPolicies(cfg, paths, numbers, strings) ==
    [cfg EXCEPT !.paths = paths, !.numbers = numbers, !.strings = strings]

\* the objects defaults.ts creates when it is loaded
LoadedHeap ==
    <<WithPolicies(DEVELOPMENT_SECURITY_CONFIG, 2, 3, 4),
      DEVELOPMENT_SECURITY_CONFIG.paths, DEVELOPMENT_SECURITY_CONFIG.numbers,
      DEVELOPMENT_SECURITY_CONFIG.strings,
      WithPolicies(PRODUCTION_SECURITY_CONFIG, 6, 7, 8),
      PRODUCTION_SECURITY_CONFIG.paths, PRODUCTION_SECURITY_CONFIG.numbers,
      PRODUCTION_SECURITY_CONFIG.strings>>

\* the configuration at ref with its policies read through their references
Deref(h, ref) ==
    WithPolicies(h[ref], h[h[ref].paths], h[h[ref].numbers], h[h[ref].strings])

NewRef == Len(heap) + 1

CanAllocate == Len(heap) < Len(LoadedHeap) + 1 + MaxAllocations

Held(ref, from) == [ref |-> ref, from |-> from]

\* obj.name = value
Assigned(obj, name, value) == Spread(obj, [n \in {name} |-> value])

BuilderOperations ==
    {"createProfile", "failFast", "withAuditLogging", "withPathSecurity",
     "withNumericSecurity", "withStringSecurity", "restrictPathsTo",
     "allowExtensions", "requireNumericBounds", "maxStringLength",
     "productionLike", "build"}

\* ProfileManager constructor, lines 213-216
HeapInit ==
    /\ currentProfile \in Profiles
    /\ heap = Append(LoadedHeap, LoadedHeap[PresetRef(currentProfile)])
    /\ currentConfig = Len(LoadedHeap) + 1
    /\ builder = 0
    /\ held = Held(0, "none")
    /\ listeners = <<>>
    /\ unsubscribes = <<>>
    /\ dispatch = <<>>
    /\ calls = <<>>
    /\ IdleNumeric /\ IdleString /\ IdlePath /\ IdleValidator /\ IdleAudit
    /\ op = NoOp
    /\ result = NoResult

\* what no action on the configuration objects changes
HeapFrame ==
    UNCHANGED <<numOptions, logged, emitted, now, sink, audit, dispatch, strOptions,
                pathOptions, config, fields, listeners, unsubscribes, calls, result>>

\* SecurityProfileBuilder constructor, lines 50-52
CreateProfile ==
    \E base \in {"development", "production"} :
        /\ CanAllocate
        /\ heap' = Append(heap, Assigned(heap[PresetRef(base)], "profile", "custom"))
        /\ builder' = NewRef
        /\ op' = [name |-> "createProfile"]
        /\ UNCHANGED <<held, currentProfile, currentConfig>>
        /\ HeapFrame

\* a builder method that assigns a property of this.config
BuilderAssigns(method, name, value) ==
    /\ builder # 0
    /\ heap' = [heap EXCEPT ![builder] = Assigned(@, name, value)]
    /\ op' = [name |-> method]
    /\ UNCHANGED <<builder, held, currentProfile, currentConfig>>
    /\ HeapFrame

\* a builder method that replaces a policy by a new object, spread from the
\* old one and the options
BuilderReplaces(method, policy, options) ==
    /\ builder # 0
    /\ CanAllocate
    /\ heap' = [Append(heap, Spread(heap[heap[builder][policy]], options))
                  EXCEPT ![builder] = Assigned(@, policy, NewRef)]
    /\ op' = [name |-> method]
    /\ UNCHANGED <<builder, held, currentProfile, currentConfig>>
    /\ HeapFrame

\* a builder method that assigns a property of one of the policies of this.config
BuilderAssignsIn(method, policy, name, value) ==
    /\ builder # 0
    /\ heap' = [heap EXCEPT ![heap[builder][policy]] = Assigned(@, name, value)]
    /\ op' = [name |-> method]
    /\ UNCHANGED <<builder, held, currentProfile, currentConfig>>
    /\ HeapFrame

\* lines 57-60
FailFast == \E enabled \in Bool : BuilderAssigns("failFast", "failOnError", enabled)

\* lines 65-68
WithAuditLogging ==
    \E enabled \in {FALSE} : BuilderAssigns("withAuditLogging", "auditLogging", enabled)

\* lines 73-76
WithPathSecurity ==
    \E options \in {[maxPathLength |-> 300]} :
        BuilderReplaces("withPathSecurity", "paths", options)

\* lines 81-84
WithNumericSecurity ==
    \E options \in {[allowNaN |-> TRUE]} :
        BuilderReplaces("withNumericSecurity", "numbers", options)

\* lines 89-92
WithStringSecurity ==
    \E options \in {[allowControlChars |-> TRUE]} :
        BuilderReplaces("withStringSecurity", "strings", options)

\* lines 97-100
RestrictPathsTo ==
    \E directories \in {{<<"/", "a">>}} :
        BuilderAssignsIn("restrictPathsTo", "paths", "allowedBaseDirs", directories)

\* lines 105-108
AllowExtensions ==
    \E extensions \in {{<<".", "j">>}} :
        BuilderAssignsIn("allowExtensions", "paths", "allowedExtensions", extensions)

\* lines 113-116
RequireNumericBounds ==
    \E required \in {TRUE} :
        BuilderAssignsIn("requireNumericBounds", "numbers", "requireBounds", required)

\* lines 121-124
MaxStringLength ==
    \E length \in {100} :
        BuilderAssignsIn("maxStringLength", "strings", "maxLength", length)

\* lines 129-136
ProductionLike ==
    \E overrides \in {EmptyObject, [failOnError |-> FALSE]} :
        /\ builder # 0
        /\ CanAllocate
        /\ heap' = Append(heap, Spread(Assigned(heap[PresetRef("production")],
                                                "profile", "custom"), overrides))
        /\ builder' = NewRef
        /\ op' = [name |-> "productionLike"]
        /\ UNCHANGED <<held, currentProfile, currentConfig>>
        /\ HeapFrame

\* a function that returns { ...heap[ref] }
ReturnsCopy(function, ref) ==
    /\ CanAllocate
    /\ heap' = Append(heap, heap[ref])
    /\ held' = Held(NewRef, function)
    /\ op' = [name |-> function]
    /\ UNCHANGED <<builder, currentProfile, currentConfig>>
    /\ HeapFrame

\* lines 141-143
Build == builder # 0 /\ ReturnsCopy("build", builder)

\* getProfileConfig, lines 40-42
CallGetProfileConfig ==
    \E profile \in Profiles : ReturnsCopy("getProfileConfig", PresetRef(profile))

\* ProfileManager.getConfig, lines 228-230
CallGetConfig == ReturnsCopy("getConfig", currentConfig)

\* the caller assigns a property of the configuration it was returned
CallerAssigns ==
    \E enabled \in {TRUE} :
        /\ held.from \in {"getProfileConfig", "getConfig"}
        /\ heap' = [heap EXCEPT ![held.ref] = Assigned(@, "failOnError", enabled)]
        /\ op' = [name |-> "assign"]
        /\ UNCHANGED <<builder, held, currentProfile, currentConfig>>
        /\ HeapFrame

\* the caller assigns a property of a policy of the configuration it was returned
CallerAssignsIn ==
    \E change \in {[policy |-> "paths", name |-> "maxPathLength", value |-> 1],
                   [policy |-> "strings", name |-> "maxLength", value |-> 1]} :
        /\ held.from \in {"getProfileConfig", "getConfig"}
        /\ heap' = [heap EXCEPT ![heap[held.ref][change.policy]]
                                    = Assigned(@, change.name, change.value)]
        /\ op' = [name |-> "assignIn"]
        /\ UNCHANGED <<builder, held, currentProfile, currentConfig>>
        /\ HeapFrame

HeapNext ==
    \/ CreateProfile \/ FailFast \/ WithAuditLogging \/ WithPathSecurity
    \/ WithNumericSecurity \/ WithStringSecurity \/ RestrictPathsTo
    \/ AllowExtensions \/ RequireNumericBounds \/ MaxStringLength
    \/ ProductionLike \/ Build \/ CallGetProfileConfig \/ CallGetConfig
    \/ CallerAssigns \/ CallerAssignsIn

SpecHeap == HeapInit /\ [][HeapNext]_vars

-----------------------------------------------------------------------------
(* Specification of both guards *)

GuardsInit == NumInit \/ StrInit

GuardsNext == NumValidate \/ StrValidate

SpecGuards == GuardsInit /\ [][GuardsNext]_vars

-----------------------------------------------------------------------------
(* Properties of PathGuard *)

PathDone == op.name = "validatePath" /\ result.kind # "none"

RECURSIVE DecodeTimes(_, _)
DecodeTimes(s, n) == IF n = 0 THEN s ELSE DecodeTimes(PercentDecode(s), n - 1)

\* the path has a segment "..", written plainly (0 rounds of decoding),
\* percent-encoded or mixed (1 round) or double-encoded (2 rounds), between
\* slashes or backslashes
HasEncodedParentSegment(path) ==
    \E n \in 0..2 : HasParentSegment(SplitOn(DecodeTimes(path, n), {"/", "\\"}))

\* C3: under every path policy, validate throws an error with the traversal
\* code for every path that contains a parent-directory segment, plain,
\* percent-encoded, double-encoded, mixed or backslash-style; none is returned.
TraversalInvariance ==
    (PathDone /\ HasEncodedParentSegment(op.path))
    => /\ result.kind = "throw"
       /\ \E i \in 1..Len(result.errors) :
              /\ result.errors[i].code = "PATH_TRAVERSAL"
              /\ result.errors[i].what \in {"traversal", "dangerous"}

\* C3 witness: a double-encoded parent segment has been rejected
TraversalInvarianceWitness ==
    /\ PathDone
    /\ ~HasParentSegment(SplitOn(DecodeTimes(op.path, 1), {"/", "\\"}))
    /\ HasParentSegment(SplitOn(DecodeTimes(op.path, 2), {"/", "\\"}))
    /\ result.kind = "throw"
    /\ "PATH_TRAVERSAL" \in Codes(result.errors)

-----------------------------------------------------------------------------
(* Properties of NumericGuard and StringGuard *)

NumDone == op.name = "validate" /\ result.kind # "none"
StrDone == op.name = "validateString" /\ result.kind # "none"

\* C4: for a finite number v and bounds with min <= max and no integer
\* constraint, validate returns v exactly when min <= v <= max and otherwise
\* throws errors that all carry the code NUMBER_OUT_OF_RANGE.
BoundsTotality ==
    (/\ NumDone
     /\ op.value.type = "number"
     /\ op.value.num.k = "fin"
     /\ ~op.bounds.integer
     /\ op.bounds.min.v <= op.bounds.max.v)
    => IF op.bounds.min.v <= op.value.num.v /\ op.value.num.v <= op.bounds.max.v
       THEN result = Return(op.value)
       ELSE /\ result.kind = "throw"
            /\ Codes(result.errors) = {"NUMBER_OUT_OF_RANGE"}

\* C4 witness: the boundary value max of a non-degenerate interval is returned
BoundsTotalityWitness ==
    /\ NumDone
    /\ op.value.type = "number"
    /\ ~op.bounds.integer
    /\ op.bounds.min.v < op.bounds.max.v
    /\ op.value.num = op.bounds.max
    /\ result = Return(op.value)

SameOutcome(r1, r2) ==
    /\ r1.kind = r2.kind
    /\ r1.kind = "return" => r1.value = r2.value

\* C5: validate gives the same outcome for a number and for the decimal
\* string form of that number under the same bounds, integer bounds included.
StringFormSameOutcome ==
    (NumDone /\ op.value.type = "number")
    => SameOutcome(result,
                   NumericGuardValidate(numOptions,
                                        StringValue(NumberToString(op.value.num)),
                                        op.bounds, "value"))

\* a control character other than tab, newline and carriage return
IsDangerControl(c) ==
    CharCode(c) \in ((0..31) \cup {127}) \ {9, 10, 13}

\* C6 as stated: every string containing a null byte or such a control
\* character is rejected, whatever the constraints (trim included), unless
\* the matching allow flag is set.
DangerCoverageRaw ==
    (StrDone /\ op.value.type = "string")
    => /\ (HasChar(op.value.str, IsNullByte) /\ ~strOptions.allowNullBytes)
              => result.kind = "throw"
       /\ (HasChar(op.value.str, IsDangerControl) /\ ~strOptions.allowControlChars)
              => result.kind = "throw"

\* the string the guard is asked about once constraints.trim has been applied
Checked(value, constraints) ==
    IF constraints.trim THEN Trim(value.str) ELSE value.str

\* C6 amended: every string that, after the trim requested by
\* constraints.trim, contains a null byte or such a control character is
\* rejected with the matching code unless the matching allow flag is set.
DangerCoverage ==
    (StrDone /\ op.value.type = "string")
    => LET s == Checked(op.value, op.constraints)
       IN  /\ (HasChar(s, IsNullByte) /\ ~strOptions.allowNullBytes)
                  => /\ result.kind = "throw"
                     /\ "STRING_NULL_BYTE" \in Codes(result.errors)
           /\ (HasChar(s, IsDangerControl) /\ ~strOptions.allowControlChars)
                  => /\ result.kind = "throw"
                     /\ "control" \in Whats(result.errors)

\* C6 witness: trim removed something, a control character is left and the
\* string is rejected
DangerCoverageWitness ==
    /\ StrDone
    /\ op.value.type = "string"
    /\ op.constraints.trim
    /\ Trim(op.value.str) # op.value.str
    /\ HasChar(Trim(op.value.str), IsDangerControl)
    /\ ~HasChar(Trim(op.value.str), IsNullByte)
    /\ result.kind = "throw"

\* the constraints of NumericGuard a number violates
NumericViolated(options, num, bounds) ==
    {c \in {"nan", "infinite", "integer", "min", "max"} :
        \/ c = "nan" /\ num.k = "nan" /\ ~options.allowNaN
        \/ c = "infinite" /\ num.k = "inf" /\ ~options.allowInfinity
        \/ c = "integer" /\ bounds.integer /\ num.k = "fin" /\ num.v % Scale # 0
        \/ c = "min" /\ (num = NegInf \/ (num.k = "fin" /\ num.v < bounds.min.v))
        \/ c = "max" /\ (num = PosInf \/ (num.k = "fin" /\ num.v > bounds.max.v))}

\* the constraints of StringGuard a string violates
StringViolated(options, s, constraints) ==
    {c \in {"null", "control", "ansi", "shell", "maxLength", "minLength",
            "pattern", "allowedValues"} :
        \/ c = "null" /\ ~options.allowNullBytes /\ HasChar(s, IsNullByte)
        \/ c = "control" /\ ~options.allowControlChars /\ HasChar(s, IsDangerControl)
        \/ c = "ansi" /\ \E i \in 1..(Len(s) - 1) : s[i] = "ESC" /\ s[i + 1] = "["
        \/ c = "shell" /\ constraints.blockShellMeta /\ HasChar(s, IsShellMeta)
        \/ c = "maxLength" /\ (\/ constraints.maxLength # Absent
                                  /\ Len(s) > constraints.maxLength[1]
                               \/ constraints.maxLength = Absent
                                  /\ Len(s) > options.maxLength)
        \/ c = "minLength" /\ constraints.minLength # Absent
                           /\ Len(s) < constraints.minLength[1]
        \/ c = "pattern" /\ constraints.pattern # Absent
                         /\ (s = <<>> \/ \E i \in 1..Len(s) : s[i] # "a")
        \/ c = "allowedValues" /\ constraints.allowedValues # Absent
                               /\ s \notin constraints.allowedValues[1]}

\* the violated constraints of the call in op
Violated ==
    IF op.name = "validate"
    THEN NumericViolated(numOptions, NumericParse(op.value, op.bounds), op.bounds)
    ELSE StringViolated(strOptions, Checked(op.value, op.constraints), op.constraints)

\* C7: a value violating N constraints makes validate throw one error whose
\* list has an entry for each violated constraint, so at least N entries.
Accumulation ==
    (\/ NumDone /\ op.value.type \in {"number", "string"}
     \/ StrDone /\ op.value.type = "string")
    => (Violated # {}
        => /\ result.kind = "throw"
           /\ Violated \subseteq Whats(result.errors)
           /\ Len(result.errors) >= Cardinality(Violated))

\* C7 witness: a number breaks the integer constraint and a bound at once
AccumulationWitness ==
    /\ NumDone
    /\ op.value.type = "number"
    /\ {"integer", "max"} \subseteq Violated
    /\ result.kind = "throw"
    /\ Len(result.errors) >= 2

-----------------------------------------------------------------------------
(* Properties of SecurityValidator *)

MergedDone == op.name = "validateMerged" /\ result.kind = "return"

\* C1: whatever the configuration and the input, validateMerged returns
\* valid exactly when the error list is empty or failOnError is false;
\* the warnings play no part in it
ValidityRule ==
    MergedDone =>
        result.value.valid = (result.value.errors = <<>> \/ ~config.failOnError)

ValidityRuleWitness ==
    /\ MergedDone
    /\ config.failOnError
    /\ result.value.warnings # <<>>
    /\ result.value.errors = <<>>
    /\ result.value.valid

\* the result a validator built for the profile returns for the pending call
ForProfile(profile) ==
    ValidateMerged(CreateSecurityValidatorForProfile(profile), fields, op.merged,
                   op.cliArgs, op.configValues)

\* C2: an input for which the development validator reports errors is
\* returned valid with the errors in the result, and the production
\* validator returns the same input invalid
ProfileSymmetry ==
    MergedDone =>
        /\ (/\ config = CreateSecurityValidatorForProfile("development")
            /\ result.value.errors # <<>>)
           => /\ result.value.valid
              /\ ForProfile("production").errors # <<>>
              /\ ~ForProfile("production").valid
        /\ (/\ config = CreateSecurityValidatorForProfile("production")
            /\ result.value.errors # <<>>)
           => /\ ~result.value.valid
              /\ ForProfile("development").valid

ProfileSymmetryWitness ==
    /\ MergedDone
    /\ config = CreateSecurityValidatorForProfile("development")
    /\ result.value.errors # <<>>
    /\ result.value.valid
    /\ ~ForProfile("production").valid

\* a schema with the string field configDirectory is registered and the
\* config source gives it the value '../../../etc'
TraversalInConfig ==
    /\ MergedDone
    /\ "configDirectory" \in DOMAIN fields
    /\ fields["configDirectory"].kind = "string"
    /\ "configDirectory" \in DOMAIN op.configValues
    /\ op.configValues["configDirectory"] = StringValue(TraversalPath)

ReportsTraversal ==
    \E i \in 1..Len(result.value.errors) :
        /\ result.value.errors[i].code = "PATH_TRAVERSAL"
        /\ result.value.errors[i].field = "configDirectory"
        /\ result.value.errors[i].source = "config"

\* C8 as stated: the traversal in the config value is returned invalid with
\* a PATH_TRAVERSAL error by every validator
TraversalRejectedRaw ==
    TraversalInConfig => ~result.value.valid /\ ReportsTraversal

\* C8: a validator whose failOnError is true returns the traversal in the
\* config value invalid; every validator reports PATH_TRAVERSAL for it
TraversalRejected ==
    TraversalInConfig =>
        /\ ReportsTraversal
        /\ config.failOnError => ~result.value.valid

TraversalRejectedWitness ==
    /\ TraversalInConfig
    /\ op.cliArgs = EmptyObject
    /\ config = NewSecurityValidator([failOnError |-> TRUE])
    /\ ~result.value.valid
    /\ ReportsTraversal

-----------------------------------------------------------------------------
(* Properties of ProfileManager *)

NotifyDone == op.name \in {"switchProfile", "applyCustomConfig"}

\* the pair the last change asked for
NewProfile == IF op.name = "switchProfile" THEN op.profile ELSE "custom"

NewConfig == IF op.name = "switchProfile" THEN GetProfileConfig(op.profile) ELSE op.config

Count(seq, P(_)) == Cardinality({i \in 1..Len(seq) : P(seq[i])})

-----------------------------------------------------------------------------
(* Properties of ProfileManager with listeners that call back into it *)

\* C11: while the listeners are being notified of a change no second change
\* takes effect: no notifyListeners loop runs inside another, the current
\* profile stays the one the change asked for, and every listener called so
\* far was told of that profile
NoReentrantSwitch ==
    /\ Len(dispatch) <= 1
    /\ dispatch # <<>> =>
          /\ currentProfile = NewProfile
          /\ \A i \in 1..Len(calls) : calls[i].profile = NewProfile

-----------------------------------------------------------------------------
(* Properties of SecurityAuditLogger *)

Min(a, b) == IF a < b THEN a ELSE b

LastOf(seq, n) == SubSeq(seq, Len(seq) - n + 1, Len(seq))

\* C12: the buffer never holds more than 100 events and is the most recent
\* min(n, 100) of the n events accepted since it was last cleared, oldest
\* first; right after clearBuffer it is empty
RingBuffer ==
    /\ Len(GetBufferedEvents) <= 100
    /\ GetBufferedEvents = LastOf(emitted, Min(Len(emitted), 100))
    /\ op.name = "clearBuffer" => GetBufferedEvents = <<>>

RingBufferWitness ==
    /\ Len(emitted) > 100
    /\ Len(GetBufferedEvents) = 100
    /\ GetBufferedEvents[1] = emitted[Len(emitted) - 99]

\* the step is a call of a public logging method
LogStep == now' = now + 1

DroppedNow == audit'.eventBuffer = audit.eventBuffer /\ sink' = <<>>

\* the event of the call is the newest of the buffer and went once to the
\* sink, if there is one, at the level of its severity
DeliveredNow ==
    LET full == FullEvent(audit, op'.event, now)
        level == CASE full.severity = "info" -> "info"
                   [] full.severity = "warning" -> "warn"
                   [] full.severity \in {"error", "critical"} -> "error"
    IN  /\ audit'.eventBuffer # <<>>
        /\ audit'.eventBuffer[Len(audit'.eventBuffer)] = full
        /\ Len(audit'.eventBuffer) = Min(Len(audit.eventBuffer) + 1, 100)
        /\ sink' = IF audit.logger
                   THEN <<[level |-> level, message |-> FormatLogMessage(full)]>>
                   ELSE <<>>

BelowMinimum ==
    SEVERITY_ORDER[op'.event.severity] < SEVERITY_ORDER[audit.config.minSeverity]

\* C13 as stated: an event below minSeverity is neither buffered nor
\* forwarded, and every other event is buffered and forwarded once
SeverityFilterRaw ==
    [][LogStep => IF BelowMinimum THEN DroppedNow ELSE DeliveredNow]_vars

\* C13: a logger that is enabled neither buffers nor forwards an event below
\* minSeverity, and buffers every other event and forwards it once to the
\* level of its severity; a logger that is not enabled drops every event
SeverityFilter ==
    [][LogStep => IF BelowMinimum \/ ~audit.config.enabled THEN DroppedNow
                  ELSE DeliveredNow]_vars

LoggedNow == "event" \in DOMAIN op

SeverityFilterWitness ==
    /\ LoggedNow
    /\ audit.config.enabled
    /\ audit.logger
    /\ audit.config.minSeverity = "warning"
    /\ op.event.severity = "info"
    /\ sink = <<>>
    /\ Len(GetBufferedEvents) = 1
    /\ GetBufferedEvents[1].severity = "error"

\* the newest buffered event and the forwarded message are those of event
IsOutcomeOf(event) ==
    LET newest == GetBufferedEvents[Len(GetBufferedEvents)]
    IN  /\ newest = FullEvent(audit, event, newest.timestamp)
        /\ sink = Forwarded(audit, newest)

\* C14: what numericRejected buffers and forwards is what it would have
\* buffered and forwarded for any other rejected value, the timestamp
\* apart, and what stringRejected buffers and forwards is made of its
\* field, reason, source and error code alone
ValueIndependence ==
    (LoggedNow /\ Accepted(audit, op.event)) =>
        /\ op.name = "numericRejected" =>
              \A value \in RejectedValues :
                  IsOutcomeOf(NumericRejected(op.args.field, value, op.args.reason,
                                              op.args.source))
        /\ op.name = "stringRejected" =>
              IsOutcomeOf(StringRejected(op.args.field, op.args.reason,
                                         op.args.source, op.args.errorCode))

ValueIndependenceWitness ==
    /\ LoggedNow
    /\ op.name = "numericRejected"
    /\ op.args.value = NaN
    /\ audit.logger
    /\ Len(sink) = 1
    /\ Len(GetBufferedEvents) >= 1

-----------------------------------------------------------------------------
(* Properties of the cross-source check *)

\* the warnings validateMerged appended after those of the two sources
CrossWarnings ==
    LET r == result.value
        before == Len(r.bySource.cli.warnings) + Len(r.bySource.config.warnings)
    IN  SubSeq(r.warnings, before + 1, Len(r.warnings))

\* C15: the cross-source check of validateMerged contributes no error, its
\* warnings all have code PERMISSIVE_PATTERN and appear only when the profile
\* is production, and a production result whose sources report no error is
\* valid whatever the cross-source warnings
CrossSourceWarningsOnly ==
    MergedDone =>
        /\ result.value.errors
             = result.value.bySource.cli.errors \o result.value.bySource.config.errors
        /\ \A i \in 1..Len(CrossWarnings) : CrossWarnings[i].code = "PERMISSIVE_PATTERN"
        /\ config.profile # "production" => CrossWarnings = <<>>
        /\ (/\ result.value.bySource.cli.errors = <<>>
            /\ result.value.bySource.config.errors = <<>>) => result.value.valid

CrossSourceWarningsOnlyWitness ==
    /\ MergedDone
    /\ config.profile = "production"
    /\ config.failOnError
    /\ CrossWarnings # <<>>
    /\ result.value.errors = <<>>
    /\ result.value.valid

-----------------------------------------------------------------------------
(* Properties of mergeSecurityConfig *)

MergeDone == op.name = "mergeSecurityConfig" /\ result.kind = "return"

PathPolicyFields ==
    {"allowedBaseDirs", "maxPathLength", "allowedExtensions", "allowHiddenFiles",
     "validateSymlinks", "allowAbsolutePaths"}

NumberPolicyFields ==
    {"requireBounds", "allowNaN", "allowInfinity", "defaultMin", "defaultMax"}

StringPolicyFields == {"maxLength", "allowNullBytes", "allowControlChars"}

\* C16: whatever the override and the base profile, the three policies of
\* the configuration mergeSecurityConfig returns have all their fields
PoliciesPopulated ==
    MergeDone =>
        /\ PathPolicyFields \subseteq DOMAIN result.value.paths
        /\ NumberPolicyFields \subseteq DOMAIN result.value.numbers
        /\ StringPolicyFields \subseteq DOMAIN result.value.strings

-----------------------------------------------------------------------------
(* Properties of the configuration objects *)

\* the presets and the manager's configuration, read through their references
PresetValues(h) == [profile \in Profiles |-> Deref(h, PresetRef(profile))]

\* C17: no operation of a SecurityProfileBuilder changes a field of the
\* development or of the production preset
PresetsFixed ==
    [][op'.name \in BuilderOperations => PresetValues(heap') = PresetValues(heap)]_vars

\* C18: an assignment to a configuration that getProfileConfig or getConfig
\* returned, to one of its properties or to a property of one of its
\* policies, changes neither what getProfileConfig returns for any profile
\* nor what getConfig returns
ReturnedCopies ==
    [][op'.name \in {"assign", "assignIn"} =>
          /\ PresetValues(heap') = PresetValues(heap)
          /\ Deref(heap', currentConfig) = Deref(heap, currentConfig)]_vars

\* the preset table as the documentation gives it
DocumentedRanges ==
    [port |-> [min |-> 1, max |-> 65535, integer |-> TRUE],
     timeout |-> [min |-> 0, max |-> 300000, integer |-> TRUE],
     retries |-> [min |-> 0, max |-> 10, integer |-> TRUE],
     concurrency |-> [min |-> 1, max |-> 100, integer |-> TRUE],
     maxTokens |-> [min |-> 1, max |-> 1000000, integer |-> TRUE],
     lineCount |-> [min |-> 0, max |-> 1000000, integer |-> TRUE],
     percentage |-> [min |-> 0, max |-> 100, integer |-> FALSE],
     temperature |-> [min |-> 0, max |-> 2, integer |-> FALSE],
     fileSize |-> [min |-> 0, max |-> 100 * 1024 * 1024, integer |-> FALSE]]

RangeDone == op.name = "validateRange" /\ result # NoResult

\* C19: validateRange accepts a finite number exactly when it lies in the
\* documented range of the preset and, for port, timeout, retries,
\* concurrency, maxTokens and lineCount, is an integer; percentage,
\* temperature and fileSize also accept non-integers in range.
PresetTable ==
    (RangeDone /\ op.value.type = "number" /\ IsFinite(op.value.num))
    => LET doc == DocumentedRanges[op.rangeName]
           num == op.value.num
       IN  (result.kind = "return")
           <=> (/\ ~Less(num, Whole(doc.min))
                /\ ~Less(Whole(doc.max), num)
                /\ (doc.integer => IsInteger(num)))

ManyDone == op.name = "validateMany" /\ result # NoResult

\* what validate does with the value of the i-th schema field
FieldOutcome(i) ==
    NumericGuardValidate(numOptions, op.values[op.schemas[i][1]], op.schemas[i][2],
                         op.schemas[i][1])

FieldMissing(i) == op.values[op.schemas[i][1]].type \in {"undefined", "null"}

\* the errors of the i-th schema field: missing while required, or failing validate
ErrorsOfField(i) ==
    IF FieldMissing(i)
    THEN (IF op.schemas[i][2].optional THEN <<>>
          ELSE <<[field |-> op.schemas[i][1], code |-> "VALIDATION_FAILED",
                  what |-> "required", source |-> "unknown"]>>)
    ELSE FieldOutcome(i).errors

RECURSIVE ErrorsUpTo(_)
ErrorsUpTo(n) == IF n = 0 THEN <<>> ELSE ErrorsUpTo(n - 1) \o ErrorsOfField(n)

PresentFields == {i \in 1..Len(op.schemas) : ~FieldMissing(i)}

\* C20: validateMany throws exactly when some schema field is missing while
\* required or has a value that fails validate; the thrown errors are the
\* errors of every such field, field after field; otherwise it returns a
\* map with exactly the schema fields that were present, each holding what
\* validate returned for it.
ManyOutcome ==
    ManyDone =>
        /\ (result.kind = "throw")
           <=> (\E i \in 1..Len(op.schemas) : ErrorsOfField(i) # <<>>)
        /\ result.kind = "throw" => result.errors = ErrorsUpTo(Len(op.schemas))
        /\ result.kind = "return" =>
              /\ {e[1] : e \in {result.value.entries[j] : j \in 1..Len(result.value.entries)}}
                 = {op.schemas[i][1] : i \in PresentFields}
              /\ Len(result.value.entries) = Cardinality(PresentFields)
              /\ \A i \in PresentFields :
                    <<op.schemas[i][1], FieldOutcome(i).value>>
                    \in {result.value.entries[j] : j \in 1..Len(result.value.entries)}

\* two fields in error, one missing while required and one failing validate
ManyOutcomeWitness ==
    /\ ManyDone
    /\ result.kind = "throw"
    /\ Len(op.schemas) = 2
    /\ FieldMissing(1) /\ ~op.schemas[1][2].optional
    /\ ~FieldMissing(2) /\ Len(FieldOutcome(2).errors) > 1

ValueDone == op.name = "validateValue" /\ result # NoResult

\* the value is of a type the guard for this kind of value does not take
Unsupported(type, value) ==
    CASE type = "path" -> value.type # "string"
      [] type = "number" -> value.type \notin {"number", "string"}
      [] type = "string" -> value.type # "string"

\* C21: validateValue reports a value whose type its guard does not support
\* as a validation error, for each of the types 'path', 'number' and 'string'
\* and whatever options are passed.
UnsupportedTypeReported ==
    (ValueDone /\ Unsupported(op.type, op.value)) => result.kind = "throw"

SanitizeDone == op.name = "sanitize" /\ result # NoResult

\* C22: for every input string and every maxLength, the output of sanitize
\* holds no control character (0x00-0x1f, 0x7f) and so no escape sequence
\* introduced by a raw ESC.
SanitizeClean ==
    SanitizeDone =>
        /\ \A i \in 1..Len(result.value.str) :
              CharCode(result.value.str[i]) \notin (0..31) \cup {127}
        /\ ~HasAnsiEscape(result.value.str)

\* an input with an escape sequence and a control character within maxLength,
\* of which something is left
SanitizeCleanWitness ==
    /\ SanitizeDone
    /\ op.maxLength = Absent
    /\ HasAnsiEscape(op.value)
    /\ \E i \in 1..Len(op.value) : op.value[i] \in {"NUL", "TAB", "DEL"}
    /\ result.value.str # <<>>

\* this step is a validation decision of the validator: a call of
\* validateCLI, validateConfig or validateMerged, or a rejection by a guard
DecisionStep ==
    /\ result = NoResult
    /\ result' # NoResult
    /\ \/ op.name \in {"validateCLI", "validateConfig", "validateMerged"}
       \/ op.name = "validateValue" /\ result'.kind = "throw"

\* C23: each call of validateCLI, validateConfig or validateMerged on a
\* validator with auditLogging enabled, and each guard rejection reached
\* through it, appends one event to the buffer of the SecurityAuditLogger.
AuditTrail ==
    [][(DecisionStep /\ config.auditLogging)
       => Len(audit'.eventBuffer) = Len(audit.eventBuffer) + 1]_vars

DetectDone == op.name = "detectConfigFormat" /\ result # NoResult

\* TypeScript > JavaScript > JSON > YAML
FormatRank(format) ==
    CASE format = "typescript" -> 4
      [] format = "javascript" -> 3
      [] format = "json" -> 2
      [] format = "yaml" -> 1

\* the formats considered by the call
Considered ==
    IF op.formatOverride = Absent THEN {"typescript", "javascript", "json", "yaml"}
    ELSE {op.formatOverride[1]}

\* the positions, in the extension list of a format, of the files that exist
\* and can be read
ReadableAt(format) ==
    {j \in 1..Len(FORMAT_EXTENSIONS[format]) :
        /\ FORMAT_EXTENSIONS[format][j] \in op.storage.exists
        /\ FORMAT_EXTENSIONS[format][j] \in op.storage.readable}

RECURSIVE StringsIn(_, _)
StringsIn(entries, prefix) ==
    IF entries = <<>> THEN {}
    ELSE LET path == IF prefix = "" THEN entries[1][1]
                     ELSE prefix \o "." \o entries[1][1]
             value == entries[1][2]
         IN  (IF value.type = "string" THEN {<<path, value.str>>} ELSE {})
             \cup StringsIn(value.kids, path)
             \cup StringsIn(Tail(entries), prefix)

WalkDone ==
    /\ op.name = "validateMerged" /\ result # NoResult
    /\ "model" \in DOMAIN op.merged /\ "kids" \in DOMAIN op.merged.model

\* C25: in the production profile every string of the merged value tree that
\* contains '~' or '$', at any depth and also as an element of an array, gets
\* a PERMISSIVE_PATTERN warning naming its dotted path.
NestedStringsWarned ==
    (WalkDone /\ config.profile = "production") =>
        \A found \in StringsIn(<<<<"model", op.merged.model>>>>, "") :
            (\E i \in 1..Len(found[2]) : found[2][i] \in {"~", "$"})
            => \E j \in 1..Len(result.value.warnings) :
                   /\ result.value.warnings[j].code = "PERMISSIVE_PATTERN"
                   /\ result.value.warnings[j].field = found[1]

HasCode(errors, code) == \E i \in 1..Len(errors) : errors[i].code = code

\* C26: the NaN check and the non-finite check of validate are independent:
\* a NaN input is rejected exactly when allowNaN is off, whatever
\* allowInfinity is, and +/-Infinity is rejected as infinite exactly when
\* allowInfinity is off.
NaNIndependent ==
    (NumDone /\ op.value.type = "number") =>
        /\ op.value.num.k = "nan" =>
              ((result.kind = "throw") <=> ~numOptions.allowNaN)
        /\ op.value.num.k = "inf" =>
              (HasCode(result.errors, "NUMBER_INFINITY") <=> ~numOptions.allowInfinity)

\* C27: after construction and after any sequence of switchProfile and
\* applyCustomConfig calls, getProfile() equals getConfig().profile.
ProfilePairConsistent == GetProfile = GetConfig.profile

\* the loop of the change called from outside has visited the whole array
DispatchOver == Len(dispatch) = 1 /\ Top.next > Len(listeners)

\* C28: when a listener calls an unsubscribe function while a change is being
\* dispatched, no listener that stays registered is skipped: at the end of
\* the dispatch each registered listener was called at least once for each
\* of its places in the array.
NoListenerSkipped ==
    (/\ DispatchOver
     /\ \A i \in 1..Len(calls) : calls[i].listener \notin {"r1", "r2"})
    => \A l \in ReentrantIds :
           LET IsCallOf(c) == c.listener = l
               IsL(x) == x = l
           IN  Count(calls, IsCallOf) >= Count(listeners, IsL)

DefaultDone == op.name \in {"validateWithDefault", "parseCliArg"} /\ result # NoResult

\* C29: every number parseCliArg and validateWithDefault return lies within
\* the bounds [min, max] of the call, the default returned for an absent
\* value included.
ReturnedWithinBounds ==
    (DefaultDone /\ result.kind = "return" /\ ~IsNaN(result.value.num))
    => /\ ~Less(result.value.num, op.bounds.min)
       /\ ~Less(op.bounds.max, result.value.num)

InjectionDone == op.name = "detectInjection" /\ result # NoResult

\* nothing of what the SQL pattern looks for: quotes, a semicolon, a double
\* dash, or one of its keywords standing as a word
NothingSqlLike(str) ==
    /\ \A i \in 1..Len(str) : str[i] \notin {"'", ";"}
    /\ \A i \in 1..(Len(str) - 1) : ~(str[i] = "-" /\ str[i + 1] = "-")
    /\ \A i \in 1..(Len(str) - 1) :
          (str[i] \in {"o", "O"} /\ str[i + 1] \in {"r", "R"})
          => \/ (i > 1 /\ str[i - 1] \in {"m", "o", "O", "r"})
             \/ (i + 2 <= Len(str) /\ str[i + 2] \in {"m", "o", "O", "r"})

\* C30: detectInjection reports the first matching category in the order SQL,
\* shell metacharacters, ANSI escapes, and the third is reachable: for a
\* string with an ANSI escape sequence and nothing SQL-like the reason is
\* 'ANSI escape sequences'.
AnsiCategoryReported ==
    InjectionDone =>
        /\ ~NothingSqlLike(op.value)
              => result.value.reason = <<"potential SQL injection">>
        /\ (NothingSqlLike(op.value) /\ HasAnsiEscape(op.value))
              => result.value.reason = <<"ANSI escape sequences">>

====
